---------------------------- MODULE Spec2Model ----------------------------
(***************************************************************************)
(* Kinematic analysis engine of the MTB suspension analyser                *)
(* (src/lib/kinematics.ts, src/lib/geometry.ts, src/lib/types.ts).         *)
(*                                                                         *)
(* JavaScript numbers are modelled in decimal fixed point:                 *)
(*   - lengths (mm) and areas (mm^2) in thousandths           (scale Mm),  *)
(*   - ratios, angles (rad, deg) and other unitless numbers in millionths  *)
(*     (scale One),                                                        *)
(* with NaN, +Infinity and -Infinity as three reserved values that every   *)
(* arithmetic operator propagates the way IEEE-754 does.  Finite results   *)
(* are rounded to the nearest unit of their scale, and a magnitude above    *)
(* Limit units is taken as infinite.                                       *)
(*                                                                         *)
(* A function of the source is one definition here.  Where the source      *)
(* binds a value with const and uses it more than once, the definition     *)
(* passes it to a local operator (With...) whose parameter carries the     *)
(* const's name, so the local operators read from the last one up in the   *)
(* order of the source's statements.                                       *)
(***************************************************************************)
EXTENDS Integers, Sequences, FiniteSets, TLC

Mm == 10^3
One == 10^6

\* The three non-finite numbers.  Every finite number lies strictly between
\* NegInf and PosInf, so <, > on integers order the infinities correctly.
PosInf == 2 * 10^9 + 1
NegInf == -PosInf
NaN == 2 * 10^9 + 7

IsNaN(a) == a = NaN
IsFinite(a) == a > NegInf /\ a < PosInf

\* Comparisons: any comparison with NaN is false.
Lt(a, b) == a # NaN /\ b # NaN /\ a < b
Gt(a, b) == a # NaN /\ b # NaN /\ a > b
Ge(a, b) == a # NaN /\ b # NaN /\ a >= b
StrictEq(a, b) == a # NaN /\ b # NaN /\ a = b

Sign(a) == IF a < 0 THEN -1 ELSE IF a > 0 THEN 1 ELSE 0
AbsInt(a) == IF a < 0 THEN -a ELSE a

Neg(a) == IF a = NaN THEN NaN ELSE -a
Abs(a) == IF a = NaN THEN NaN ELSE AbsInt(a)

\* The largest finite magnitude; a result beyond it overflows to an infinity,
\* as a double does beyond Number.MAX_VALUE.
Limit == 2 * 10^9

Add(a, b) ==
  IF a = NaN \/ b = NaN THEN NaN
  ELSE IF ~IsFinite(a) THEN (IF ~IsFinite(b) /\ b # a THEN NaN ELSE a)
  ELSE IF ~IsFinite(b) THEN b
  ELSE IF a > 0 /\ b > Limit - a THEN PosInf
  ELSE IF a < 0 /\ b < -Limit - a THEN NegInf
  ELSE a + b

Sub(a, b) == Add(a, Neg(b))

\* a * b = q * c + r with 0 <= r < c, for naturals a, b and 0 < c <= 10^7,
\* by long multiplication over the digits of b, in a base that keeps every
\* intermediate value below 2^31.
RECURSIVE MulDivQR(_, _, _, _)
MulDivStep(a, c, base, d, h) ==
  <<base * h[1] + d * (a \div c) + ((base * h[2] + d * (a % c)) \div c),
    (base * h[2] + d * (a % c)) % c>>
MulDivQR(a, b, c, base) ==
  IF b = 0 THEN <<0, 0>>
  ELSE MulDivStep(a, c, base, b % base, MulDivQR(a, b \div base, c, base))

DigitBase(c) == IF c <= 10^6 THEN 1000 ELSE 100

RoundQR(qr, c) == qr[1] + (IF 2 * qr[2] >= c THEN 1 ELSE 0)

\* round(hi * lo / c) for naturals hi, lo and 0 < c <= 10^7, signed by sgn;
\* beyond Limit the result is an infinity.
MulDivSmall(hi, lo, c, sgn) ==
  IF lo >= Limit \div (hi \div c + 1)
    THEN (IF sgn > 0 THEN PosInf ELSE NegInf)
    ELSE sgn * RoundQR(MulDivQR(hi, lo, c, DigitBase(c)), c)

\* A divisor above 10^7 is used to its leading seven digits, hi / c keeping
\* its value: a relative error below 10^-6, the resolution of a ratio.
ScaleOf(c) ==
  IF c > 10^9 THEN 1000 ELSE IF c > 10^8 THEN 100 ELSE IF c > 10^7 THEN 10 ELSE 1
RoundDiv(a, s) == (a + s \div 2) \div s

\* round(hi * lo / c) for naturals hi >= lo and c > 0, signed by sgn.
MulDivNat(hi, lo, c, sgn) ==
  MulDivSmall(RoundDiv(hi, ScaleOf(c)), lo, RoundDiv(c, ScaleOf(c)), sgn)

\* round(a * b / c) for integers a, b, c with c # 0.
MulDiv(a, b, c) ==
  MulDivNat(IF AbsInt(a) < AbsInt(b) THEN AbsInt(b) ELSE AbsInt(a),
            IF AbsInt(a) < AbsInt(b) THEN AbsInt(a) ELSE AbsInt(b),
            AbsInt(c), Sign(a) * Sign(b) * Sign(c))

\* x * y, the product carrying 1/k of the product of the operands' scales.
MulScaled(a, b, k) ==
  IF a = NaN \/ b = NaN THEN NaN
  ELSE IF ~IsFinite(a) \/ ~IsFinite(b)
       THEN (IF a = 0 \/ b = 0 THEN NaN
             ELSE IF Sign(a) * Sign(b) > 0 THEN PosInf ELSE NegInf)
  ELSE MulDiv(a, b, k)

\* x / y, the quotient carrying k times the ratio of the operands' scales.
DivScaled(a, b, k) ==
  IF a = NaN \/ b = NaN THEN NaN
  ELSE IF ~IsFinite(a)
       THEN (IF ~IsFinite(b) THEN NaN
             ELSE IF Sign(a) * (IF b < 0 THEN -1 ELSE 1) > 0 THEN PosInf ELSE NegInf)
  ELSE IF ~IsFinite(b) THEN 0
  ELSE IF b = 0
       THEN (IF a = 0 THEN NaN ELSE IF a > 0 THEN PosInf ELSE NegInf)
  ELSE MulDiv(a, k, b)

\* The products and quotients of the three kinds of number.
MulLL(a, b) == MulScaled(a, b, Mm)     \* length * length  -> area
MulLR(a, b) == MulScaled(a, b, One)    \* length * ratio   -> length
MulRR(a, b) == MulScaled(a, b, One)    \* ratio  * ratio   -> ratio
DivLL(a, b) == DivScaled(a, b, One)    \* length / length  -> ratio
DivAA(a, b) == DivScaled(a, b, One)    \* area   / area    -> ratio
DivRR(a, b) == DivScaled(a, b, One)    \* ratio  / ratio   -> ratio
DivLR(a, b) == DivScaled(a, b, One)    \* length / ratio   -> length
DivAL(a, b) == DivScaled(a, b, Mm)     \* area   / length  -> length

\* floor(sqrt(a * k)) for a natural a, by Newton's iteration from above.
RECURSIVE NewtonSqrt(_, _, _)
NewtonNext(a, k, x, y) == IF y >= x THEN x ELSE NewtonSqrt(a, k, y)
NewtonSqrt(a, k, x) ==
  NewtonNext(a, k, x, (x + MulDivQR(a, k, x, DigitBase(x))[1]) \div 2)

RECURSIVE SqrtGuess(_, _, _)
SqrtGuess(a, k, g) == IF g > a \div (g \div k) THEN g ELSE SqrtGuess(a, k, 2 * g)

\* r = floor(sqrt(a * k)) raised by one when a * k - r * r exceeds r, which
\* rounds the root to the nearest integer; sq is r * r as <<q, rem>> over k.
SqrtRound(a, k, r, sq) == IF (a - sq[1]) * k - sq[2] > r THEN r + 1 ELSE r
SqrtNearest(a, k, r) == SqrtRound(a, k, r, MulDivQR(r, r, k, DigitBase(k)))

SqrtScaled(a, k) ==
  IF a = NaN \/ a < 0 THEN NaN
  ELSE IF a = PosInf THEN PosInf
  ELSE IF a = 0 THEN 0
  ELSE SqrtNearest(a, k, NewtonSqrt(a, k, SqrtGuess(a, k, k)))

SqrtA(a) == SqrtScaled(a, Mm)     \* Math.sqrt of an area  -> length
SqrtR(a) == SqrtScaled(a, One)    \* Math.sqrt of a ratio  -> ratio

\* Math.PI in millionths.
Pi == 3141593
HalfPi == Pi \div 2
TwoPi == 2 * Pi

\* sin and cos of an angle x in [-pi/2, pi/2], by their Taylor polynomials
\* in Horner form; s is x * x.
SinHorner(x, s) ==
  MulRR(x, One - MulRR(s, One - MulRR(s, One - MulRR(s, One - MulRR(s,
           One - MulRR(s, One - s \div 156) \div 110) \div 72) \div 42) \div 20) \div 6)
CosHorner(s) ==
  One - MulRR(s, One - MulRR(s, One - MulRR(s, One - MulRR(s,
          One - MulRR(s, One - s \div 132) \div 90) \div 56) \div 30) \div 12) \div 2
SinPoly(x) == SinHorner(x, MulRR(x, x))
CosPoly(x) == CosHorner(MulRR(x, x))

\* The angle brought into (-pi, pi], and then folded into [-pi/2, pi/2].
WrapAngle(x) == IF (x % TwoPi) > Pi THEN (x % TwoPi) - TwoPi ELSE x % TwoPi
FoldAngle(r) == IF r > HalfPi THEN Pi - r ELSE IF r < -HalfPi THEN -Pi - r ELSE r

SinWrapped(r) == SinPoly(FoldAngle(r))
CosWrapped(r) == (IF r > HalfPi \/ r < -HalfPi THEN -1 ELSE 1) * CosPoly(FoldAngle(r))

Sin(x) == IF ~IsFinite(x) THEN NaN ELSE SinWrapped(WrapAngle(x))
Cos(x) == IF ~IsFinite(x) THEN NaN ELSE CosWrapped(WrapAngle(x))

\* atan of a ratio u with |u| <= tan(pi/8), by its Taylor polynomial; s is
\* u * u.
AtanHorner(u, s) ==
  MulRR(u, One - MulRR(s, One \div 3 - MulRR(s, One \div 5 - MulRR(s, One \div 7
           - MulRR(s, One \div 9 - MulRR(s, One \div 11 - MulRR(s, One \div 13)))))))
AtanPoly(u) == AtanHorner(u, MulRR(u, u))

\* atan of a ratio t in [0, 1]: atan(t) = pi/4 + atan((t - 1) / (t + 1)) above
\* tan(pi/8) = sqrt(2) - 1.
TanPiOver8 == 1414214 - One
AtanUnit(t) ==
  (IF t > TanPiOver8 THEN Pi \div 4 ELSE 0)
  + AtanPoly(IF t > TanPiOver8 THEN DivRR(t - One, t + One) ELSE t)

\* The angle of (x, y) from q0 = atan(min(|y|,|x|) / max(|y|,|x|)).
Atan2Octant(y, x, q0) ==
  (IF y < 0 THEN -1 ELSE 1)
  * (IF x < 0
       THEN Pi - (IF AbsInt(y) <= AbsInt(x) THEN q0 ELSE HalfPi - q0)
       ELSE (IF AbsInt(y) <= AbsInt(x) THEN q0 ELSE HalfPi - q0))

\* Math.atan2(y, x); y and x carry the same scale.
Atan2(y, x) ==
  IF y = NaN \/ x = NaN THEN NaN
  ELSE IF ~IsFinite(y)
       THEN Sign(y) * (IF x = PosInf THEN Pi \div 4
                       ELSE IF x = NegInf THEN 3 * (Pi \div 4)
                       ELSE HalfPi)
  ELSE IF ~IsFinite(x)
       THEN (IF x > 0 THEN 0 ELSE IF y < 0 THEN -Pi ELSE Pi)
  ELSE IF x = 0 /\ y = 0 THEN 0
  ELSE Atan2Octant(y, x,
         AtanUnit(DivScaled(IF AbsInt(y) <= AbsInt(x) THEN AbsInt(y) ELSE AbsInt(x),
                            IF AbsInt(y) <= AbsInt(x) THEN AbsInt(x) ELSE AbsInt(y),
                            One)))

\* Math.acos and Math.asin: NaN outside [-1, 1].
Acos(c) ==
  IF ~IsFinite(c) \/ c > One \/ c < -One THEN NaN
  ELSE Atan2(SqrtR(One - MulRR(c, c)), c)

Asin(v) ==
  IF ~IsFinite(v) \/ v > One \/ v < -One THEN NaN
  ELSE Atan2(v, SqrtR(One - MulRR(v, v)))

\* Math.floor of a ratio, as an integer count.
Floor(r) == r \div One

\* n * a for an integer n (2 * d, step * stepSize, ... * 100).
Times(n, a) ==
  IF a = NaN THEN NaN
  ELSE IF ~IsFinite(a) THEN (IF n = 0 THEN NaN ELSE Sign(n) * a)
  ELSE IF n = 0 THEN 0
  ELSE IF AbsInt(a) > Limit \div AbsInt(n)
    THEN (IF Sign(n) * Sign(a) > 0 THEN PosInf ELSE NegInf)
  ELSE n * a

\* Math.max and Math.min: NaN when either argument is NaN.
Max(a, b) == IF a = NaN \/ b = NaN THEN NaN ELSE IF a > b THEN a ELSE b
Min(a, b) == IF a = NaN \/ b = NaN THEN NaN ELSE IF a < b THEN a ELSE b

(***************************************************************************)
(* Planar geometry kernel (src/lib/geometry.ts, src/lib/types.ts).         *)
(***************************************************************************)
Pt(px, py) == [x |-> px, y |-> py]

\* Point2D.add, Point2D.subtract
PointAdd(a, b) == Pt(Add(a.x, b.x), Add(a.y, b.y))
PointSubtract(a, b) == Pt(Sub(a.x, b.x), Sub(a.y, b.y))

dot(p, q) == Add(MulLL(p.x, q.x), MulLL(p.y, q.y))
magnitude(p) == SqrtA(dot(p, p))
distance(p1, p2) == magnitude(PointSubtract(p2, p1))
angle(from, to) == Atan2(Sub(to.y, from.y), Sub(to.x, from.x))

\* normalise(p) = p * (1 / |p|); the reciprocal of a length is kept in
\* 10^-9 mm^-1 so that the unit vector has the precision of a ratio.
Reciprocal(len) == DivScaled(10^9, len, Mm)
normalise(p) ==
  LET WithInverse(inv) == Pt(MulScaled(p.x, inv, One), MulScaled(p.y, inv, One))
  IN  WithInverse(Reciprocal(magnitude(p)))

\* dot and cross of two unit vectors (ratios).
dotR(p, q) == Add(MulRR(p.x, q.x), MulRR(p.y, q.y))
crossR(p, q) == Sub(MulRR(p.x, q.y), MulRR(p.y, q.x))

\* The absent result of lineIntersection / lineIntersectionWithVertical (null).
Null == [none |-> TRUE]

\* Math.abs(v) < 0.0001 for a length or an area v in thousandths, that is
\* 10^4 * |v| < 1 unit; v = 0 is the only such value.
BelowParallelEps(v) == Lt(Times(10^4, Abs(v)), Mm)

\* A variant that answers for the two segments only (see C17).
lineIntersectionOfSegments(line1Point1, line1Point2, line2Point1, line2Point2) ==
  LET x1 == line1Point1.x
      y1 == line1Point1.y
      x2 == line1Point2.x
      y2 == line1Point2.y
      x3 == line2Point1.x
      y3 == line2Point1.y
      x4 == line2Point2.x
      y4 == line2Point2.y
      WithT(t) ==
        IF Lt(t, 0) \/ Gt(t, One) THEN Null
        ELSE Pt(Add(x1, MulLR(Sub(x2, x1), t)), Add(y1, MulLR(Sub(y2, y1), t)))
      WithDenom(denom) ==
        IF BelowParallelEps(denom) THEN Null
        ELSE WithT(DivAA(Sub(MulLL(Sub(x1, x3), Sub(y3, y4)),
                             MulLL(Sub(y1, y3), Sub(x3, x4))), denom))
  IN  WithDenom(Sub(MulLL(Sub(x1, x2), Sub(y3, y4)), MulLL(Sub(y1, y2), Sub(x3, x4))))

\* A coordinate difference small enough (30 mm) for the determinant to be
\* formed exactly, in 10^-6 mm^2, where 0.0001 is 100 units; larger
\* differences give areas in thousandths (BelowParallelEps).
SmallDifference(a, b) == IsFinite(a) /\ IsFinite(b) /\ AbsInt(a - b) <= 30 * Mm

lineIntersection(line1Point1, line1Point2, line2Point1, line2Point2) ==
  LET x1 == line1Point1.x
      y1 == line1Point1.y
      x2 == line1Point2.x
      y2 == line1Point2.y
      x3 == line2Point1.x
      y3 == line2Point1.y
      x4 == line2Point2.x
      y4 == line2Point2.y
      WithT(t) == Pt(Add(x1, MulLR(Sub(x2, x1), t)), Add(y1, MulLR(Sub(y2, y1), t)))
      WithDenom(denom) ==
        IF BelowParallelEps(denom) THEN Null
        ELSE WithT(DivAA(Sub(MulLL(Sub(x1, x3), Sub(y3, y4)),
                             MulLL(Sub(y1, y3), Sub(x3, x4))), denom))
      WithExactDenom(denom) ==
        IF AbsInt(denom) < 100 THEN Null
        ELSE WithT(DivAA((x1 - x3) * (y3 - y4) - (y1 - y3) * (x3 - x4), denom))
  IN  IF /\ SmallDifference(x1, x2) /\ SmallDifference(y1, y2)
         /\ SmallDifference(x3, x4) /\ SmallDifference(y3, y4)
         /\ SmallDifference(x1, x3) /\ SmallDifference(y1, y3)
        THEN WithExactDenom((x1 - x2) * (y3 - y4) - (y1 - y2) * (x3 - x4))
        ELSE WithDenom(Sub(MulLL(Sub(x1, x2), Sub(y3, y4)),
                           MulLL(Sub(y1, y2), Sub(x3, x4))))

transformPointByReferenceLine(P0, A0, I0, P1, A1) ==
  LET local == PointSubtract(I0, P0)
      WithCS(c, s) ==
        PointAdd(P1, Pt(Sub(MulLR(local.x, c), MulLR(local.y, s)),
                        Add(MulLR(local.x, s), MulLR(local.y, c))))
      WithD0D1(d0, d1) == WithCS(dotR(d0, d1), crossR(d0, d1))
  IN  WithD0D1(normalise(PointSubtract(A0, P0)), normalise(PointSubtract(A1, P1)))

\* Standard chain pitch, 12.7 mm.
ChainPitch == 12700

sprocketRadius(teeth) == DivLR(Times(teeth, ChainPitch), TwoPi)

\* A variant without the test d === 0 (see C16).
circleCircleIntersectionUnguarded(center1, radius1, center2, radius2) ==
  LET WithOffsets(px, py, offsetX, offsetY) ==
        <<Pt(Add(px, offsetX), Add(py, offsetY)),
          Pt(Sub(px, offsetX), Sub(py, offsetY))>>
      WithH(d, a, h) ==
        WithOffsets(Add(center1.x, MulLR(Sub(center2.x, center1.x), DivLL(a, d))),
                    Add(center1.y, MulLR(Sub(center2.y, center1.y), DivLL(a, d))),
                    MulLR(Sub(center2.y, center1.y), DivLL(h, d)),
                    MulLR(Sub(center1.x, center2.x), DivLL(h, d)))
      WithA(d, a) == WithH(d, a, SqrtA(Sub(MulLL(radius1, radius1), MulLL(a, a))))
      WithD(d) ==
        IF Gt(d, Add(radius1, radius2)) \/ Lt(d, Abs(Sub(radius1, radius2)))
          THEN <<>>
          ELSE WithA(d, DivAL(Add(Sub(MulLL(radius1, radius1), MulLL(radius2, radius2)),
                                  MulLL(d, d)),
                              Times(2, d)))
  IN  WithD(distance(center1, center2))

\* The list of intersection points: empty or two points.
circleCircleIntersection(center1, radius1, center2, radius2) ==
  LET WithOffsets(px, py, offsetX, offsetY) ==
        <<Pt(Add(px, offsetX), Add(py, offsetY)),
          Pt(Sub(px, offsetX), Sub(py, offsetY))>>
      WithH(d, a, h) ==
        WithOffsets(Add(center1.x, MulLR(Sub(center2.x, center1.x), DivLL(a, d))),
                    Add(center1.y, MulLR(Sub(center2.y, center1.y), DivLL(a, d))),
                    MulLR(Sub(center2.y, center1.y), DivLL(h, d)),
                    MulLR(Sub(center1.x, center2.x), DivLL(h, d)))
      WithA(d, a) == WithH(d, a, SqrtA(Sub(MulLL(radius1, radius1), MulLL(a, a))))
      WithD(d) ==
        IF Gt(d, Add(radius1, radius2)) \/ Lt(d, Abs(Sub(radius1, radius2)))
           \/ StrictEq(d, 0)
          THEN <<>>
          ELSE WithA(d, DivAL(Add(Sub(MulLL(radius1, radius1), MulLL(radius2, radius2)),
                                  MulLL(d, d)),
                              Times(2, d)))
  IN  WithD(distance(center1, center2))

tangentPoints(center1, radius1, center2, radius2) ==
  LET dx == Sub(center2.x, center1.x)
      dy == Sub(center2.y, center1.y)
      radiusDiff == Sub(radius1, radius2)
      WithSinCos(sinUpper, cosUpper) ==
        [start |-> Pt(Add(center1.x, MulLR(radius1, sinUpper)),
                      Sub(center1.y, MulLR(radius1, cosUpper))),
         end   |-> Pt(Add(center2.x, MulLR(radius2, sinUpper)),
                      Sub(center2.y, MulLR(radius2, cosUpper)))]
      WithUpperAngle(upperAngle) == WithSinCos(Sin(upperAngle), Cos(upperAngle))
      WithDist(dist) ==
        WithUpperAngle(Add(Atan2(dy, dx),
                           Asin(Max(-One, Min(One, DivLL(radiusDiff, dist))))))
  IN  WithDist(SqrtA(Add(MulLL(dx, dx), MulLL(dy, dy))))

\* lineIntersectionWithVertical(p1, p2, x): the point of the line through p1
\* and p2 on the vertical line at x; absent when the line is itself vertical.
\* kinematics.ts imports it from ./geometry, whose text in src/ does not
\* define it: the definition follows the specification's description of the
\* anti-squat and anti-rise projection.
lineIntersectionWithVertical(linePoint1, linePoint2, verticalX) ==
  LET dx == Sub(linePoint2.x, linePoint1.x)
  IN  IF BelowParallelEps(dx) THEN Null
      ELSE Pt(verticalX,
              Add(linePoint1.y,
                  MulLR(Sub(linePoint2.y, linePoint1.y),
                        DivLL(Sub(verticalX, linePoint1.x), dx))))

(***************************************************************************)
(* computedProperties (src/lib/types.ts)                                   *)
(***************************************************************************)
frontWheelRadius(g) == g.frontWheelDiameter \div 2
rearWheelRadius(g) == g.rearWheelDiameter \div 2
headTubeAngleRadians(g) == MulScaled(g.headAngle, Pi, 180 * One)
headTubeTop(g) == Pt(g.reach, g.stack)
headTubeBottom(g) ==
  LET WithHtaRad(htaRad) ==
        Pt(Add(headTubeTop(g).x, MulLR(g.headTubeLength, Cos(htaRad))),
           Sub(headTubeTop(g).y, MulLR(g.headTubeLength, Sin(htaRad))))
  IN  WithHtaRad(headTubeAngleRadians(g))

\* deg * (Math.PI / 180)
degreesToRadians(deg) == MulScaled(deg, Pi, 180 * One)

(***************************************************************************)
(* Rigid triangle solver (src/lib/kinematics.ts)                           *)
(***************************************************************************)
topOutPivot(g) ==
  Pt(g.bbToPivotX, Add(g.bbHeight, g.bbToPivotY))
topOutFrameMount(g) ==
  Pt(g.shockFrameMountX, Add(g.bbHeight, g.shockFrameMountY))

\* A fallback without a swingarm; see C6.
fallbackTriangleNoSwingarm(g) ==
  [pivotToEye |-> g.shockSwingarmMountDistance,
   pivotToAxle |-> 0,
   eyeToAxle |-> 0,
   correctEyeIndex |-> 0,
   axleAngleIsPositive |-> TRUE]

\* A fallback that names an eye candidate that never exists; see C3.
fallbackTriangleThirdEye(g) ==
  [pivotToEye |-> g.shockSwingarmMountDistance,
   pivotToAxle |-> g.swingarmLength,
   eyeToAxle |-> g.swingarmLength,
   correctEyeIndex |-> 2,
   axleAngleIsPositive |-> TRUE]

\* A fallback whose pivot-to-axle side is the shock mount distance (see C23).
fallbackTriangleMountDistance(g) ==
  [pivotToEye |-> g.shockSwingarmMountDistance,
   pivotToAxle |-> g.shockSwingarmMountDistance,
   eyeToAxle |-> g.swingarmLength,
   correctEyeIndex |-> 0,
   axleAngleIsPositive |-> TRUE]

fallbackTriangle(g) ==
  [pivotToEye |-> g.shockSwingarmMountDistance,
   pivotToAxle |-> g.swingarmLength,
   eyeToAxle |-> g.swingarmLength,
   correctEyeIndex |-> 0,
   axleAngleIsPositive |-> TRUE]

\* (a^2 + b^2 - c^2) / (2 * a * b), the law of cosines at the pivot.
cosAngleOf(a, b, c) ==
  DivAA(Sub(Add(MulLL(a, a), MulLL(b, b)), MulLL(c, c)), Times(2, MulLL(a, b)))

\* A variant that takes the cosine for both coordinates (see C12).
polarFromCosineTwice(pivot, dist, ang) ==
  Pt(Add(pivot.x, MulLR(dist, Cos(ang))), Add(pivot.y, MulLR(dist, Cos(ang))))

\* pivot + dist * (cos(ang), sin(ang))
polarFrom(pivot, dist, ang) ==
  Pt(Add(pivot.x, MulLR(dist, Cos(ang))), Add(pivot.y, MulLR(dist, Sin(ang))))

establishRigidTriangle(g) ==
  LET rwr == rearWheelRadius(g)
      pivot == topOutPivot(g)
      verticalDist == Sub(rwr, pivot.y)
      WithAngles(correctEyeIndex, axle, pivotToEyeDist, pivotToAxleDist, eyeToAxleDist,
                 angleAtPivot, pivotToEyeAngle) ==
        [pivotToEye |-> pivotToEyeDist,
         pivotToAxle |-> pivotToAxleDist,
         eyeToAxle |-> eyeToAxleDist,
         correctEyeIndex |-> correctEyeIndex,
         axleAngleIsPositive |->
           Lt(distance(polarFrom(pivot, pivotToAxleDist,
                                 Add(pivotToEyeAngle, angleAtPivot)), axle),
              distance(polarFrom(pivot, pivotToAxleDist,
                                 Sub(pivotToEyeAngle, angleAtPivot)), axle))]
      WithDistances(correctEyeIndex, chosenEye, axle,
                    pivotToEyeDist, pivotToAxleDist, eyeToAxleDist) ==
        WithAngles(correctEyeIndex, axle, pivotToEyeDist, pivotToAxleDist, eyeToAxleDist,
                   Acos(cosAngleOf(pivotToEyeDist, pivotToAxleDist, eyeToAxleDist)),
                   angle(pivot, chosenEye))
      WithAxle(correctEyeIndex, chosenEye, axle) ==
        WithDistances(correctEyeIndex, chosenEye, axle,
                      distance(pivot, chosenEye), distance(pivot, axle),
                      distance(chosenEye, axle))
      WithHorizontalDist(correctEyeIndex, chosenEye, horizontalDist) ==
        WithAxle(correctEyeIndex, chosenEye,
                 IF Lt(Add(pivot.x, horizontalDist), Sub(pivot.x, horizontalDist))
                   THEN Pt(Add(pivot.x, horizontalDist), rwr)
                   ELSE Pt(Sub(pivot.x, horizontalDist), rwr))
      WithHorizontalDistSquared(correctEyeIndex, chosenEye, horizontalDistSquared) ==
        IF Lt(horizontalDistSquared, 0) THEN fallbackTriangle(g)
        ELSE WithHorizontalDist(correctEyeIndex, chosenEye, SqrtA(horizontalDistSquared))
      WithCorrectEyeIndex(eyeCandidates, correctEyeIndex) ==
        WithHorizontalDistSquared(
          correctEyeIndex, eyeCandidates[correctEyeIndex + 1],
          Sub(MulLL(g.swingarmLength, g.swingarmLength),
              MulLL(verticalDist, verticalDist)))
      WithEyeCandidates(eyeCandidates) ==
        IF Len(eyeCandidates) # 2 THEN fallbackTriangle(g)
        ELSE WithCorrectEyeIndex(
               eyeCandidates,
               IF Gt(eyeCandidates[1].x, eyeCandidates[2].x) THEN 0 ELSE 1)
  IN  WithEyeCandidates(
        circleCircleIntersection(pivot, g.shockSwingarmMountDistance,
                                 topOutFrameMount(g), g.shockETE))

(***************************************************************************)
(* Stroke sampler, first pass (src/lib/kinematics.ts)                      *)
(***************************************************************************)
\* The outcome of a call that ends in a JavaScript exception.
Thrown == [thrown |-> TRUE]
IsThrown(r) == "thrown" \in DOMAIN r

\* A degenerate state that keeps the top-out shock length; see C7.
degenerateStateAtTopOut(shockStroke, g) ==
  [travelMM |-> 0,
   rearAxlePosition |-> Pt(0, rearWheelRadius(g)),
   bbPosition |-> Pt(0, g.bbHeight),
   pivotPosition |-> topOutPivot(g),
   swingarmEyePosition |-> Pt(0, 0),
   shockLength |-> g.shockETE,
   pitchAngleDegrees |-> 0]

\* The state returned when the shock circles do not intersect.
\* A variant that leaves the rear axle at the origin (see C14).
degenerateStateAxleAtOrigin(shockStroke, g) ==
  [travelMM |-> 0,
   rearAxlePosition |-> Pt(0, 0),
   bbPosition |-> Pt(0, g.bbHeight),
   pivotPosition |-> topOutPivot(g),
   swingarmEyePosition |-> Pt(0, 0),
   shockLength |-> Sub(g.shockETE, shockStroke),
   pitchAngleDegrees |-> 0]

degenerateState(shockStroke, g) ==
  [travelMM |-> 0,
   rearAxlePosition |-> Pt(0, rearWheelRadius(g)),
   bbPosition |-> Pt(0, g.bbHeight),
   pivotPosition |-> topOutPivot(g),
   swingarmEyePosition |-> Pt(0, 0),
   shockLength |-> Sub(g.shockETE, shockStroke),
   pitchAngleDegrees |-> 0]

\* A variant that leaves the tangent angle in radians (see C13).
pitchOfInRadians(frontAxlePos, rearAxlePos, g) ==
  LET dx == Sub(frontAxlePos.x, rearAxlePos.x)
      dy == Sub(frontAxlePos.y, rearAxlePos.y)
      centerDist == SqrtA(Add(MulLL(dx, dx), MulLL(dy, dy)))
      radiusDiff == Sub(frontWheelRadius(g), rearWheelRadius(g))
  IN  Sub(Atan2(dy, dx), Asin(DivLL(radiusDiff, centerDist)))

\* The pitch of the common tangent of the two wheels, in degrees.
pitchOf(frontAxlePos, rearAxlePos, g) ==
  LET dx == Sub(frontAxlePos.x, rearAxlePos.x)
      dy == Sub(frontAxlePos.y, rearAxlePos.y)
      centerDist == SqrtA(Add(MulLL(dx, dx), MulLL(dy, dy)))
      centerAngle == Atan2(dy, dx)
      radiusDiff == Sub(frontWheelRadius(g), rearWheelRadius(g))
      angleOffset == Asin(DivLL(radiusDiff, centerDist))
      tangentAngle == Sub(centerAngle, angleOffset)
  IN  DivRR(Times(180, tangentAngle), Pi)

\* The front axle for a head angle in radians and a fork length.
frontAxleOf(bbPos, g, htaRad, forkLen) ==
  LET WithCosSin(cosHta, sinHta) ==
        Pt(Add(Add(Add(Add(bbPos.x, g.reach),
                       MulLR(g.headTubeLength, cosHta)),
                   MulLR(forkLen, cosHta)),
               MulLR(g.forkOffset, sinHta)),
           Add(Sub(Sub(Add(bbPos.y, g.stack),
                       MulLR(g.headTubeLength, sinHta)),
                   MulLR(forkLen, sinHta)),
               MulLR(g.forkOffset, cosHta)))
  IN  WithCosSin(Cos(htaRad), Sin(htaRad))

\* A frame point left where the top-out frame has it; see C4.
notLowered(point, groundOffset) == point

\* Lines 358-365: a frame point moved down with the frame by groundOffset
\* (the pivot's x is geometry.bbToPivotX).
loweredBy(point, groundOffset) == Pt(point.x, Sub(point.y, groundOffset))

\* The axle always on the positive side, whatever the triangle says; see C5.
axleAngleAlwaysPlus(rt, pivotToEyeAngle, angleAtPivot) ==
  Add(pivotToEyeAngle, angleAtPivot)

\* Lines 336-338: the axle angle, on the side the rigid triangle fixed.
axleAngleOf(rt, pivotToEyeAngle, angleAtPivot) ==
  IF rt.axleAngleIsPositive
    THEN Add(pivotToEyeAngle, angleAtPivot)
    ELSE Sub(pivotToEyeAngle, angleAtPivot)

\* The signed height the bottom bracket has lost; see C27.
wheelTravelSigned(g, bbY) == Sub(g.bbHeight, bbY)

\* Lines 401-402: wheelTravel = Math.abs(geometry.bbHeight - bbY).
wheelTravelOf(g, bbY) == Abs(Sub(g.bbHeight, bbY))

calculateStateAtShockStroke(shockStroke, g, rt) ==
  LET rwr == rearWheelRadius(g)
      eyeToAxleDistance == rt.eyeToAxle
      currentShockLength == Sub(g.shockETE, shockStroke)
      pivot == topOutPivot(g)
      pivotToAxleDist == rt.pivotToAxle
      WithPositions(bbY, rearAxlePos, bbPos, pivotPos, swingarmEyePos, finalFrameMount,
                    frontAxlePos) ==
        [travelMM |-> wheelTravelOf(g, bbY),
         rearAxlePosition |-> rearAxlePos,
         bbPosition |-> bbPos,
         pivotPosition |-> pivotPos,
         swingarmEyePosition |-> swingarmEyePos,
         shockLength |-> distance(finalFrameMount, swingarmEyePos),
         pitchAngleDegrees |-> pitchOf(frontAxlePos, rearAxlePos, g)]
      WithBbY(chosenEye, nominalAxle, groundOffset, bbY) ==
        WithPositions(bbY,
                      Pt(nominalAxle.x, rwr),
                      Pt(0, bbY),
                      loweredBy(pivot, groundOffset),
                      loweredBy(chosenEye, groundOffset),
                      Pt(g.shockFrameMountX, Add(bbY, g.shockFrameMountY)),
                      frontAxleOf(Pt(0, bbY), g,
                                  degreesToRadians(g.headAngle),
                                  g.forkLength))
      WithGroundOffset(chosenEye, nominalAxle, groundOffset) ==
        WithBbY(chosenEye, nominalAxle, groundOffset, Sub(g.bbHeight, groundOffset))
      WithNominalAxle(chosenEye, nominalAxle) ==
        WithGroundOffset(chosenEye, nominalAxle, Sub(nominalAxle.y, rwr))
      WithAngles(chosenEye, angleAtPivot, pivotToEyeAngle) ==
        WithNominalAxle(chosenEye,
                        polarFrom(pivot, pivotToAxleDist,
                                  axleAngleOf(rt, pivotToEyeAngle,
                                              angleAtPivot)))
      WithPivotToEyeDist(chosenEye, pivotToEyeDist) ==
        WithAngles(chosenEye,
                   Acos(cosAngleOf(pivotToEyeDist, pivotToAxleDist, eyeToAxleDistance)),
                   angle(pivot, chosenEye))
      WithChosenEye(chosenEye) == WithPivotToEyeDist(chosenEye, distance(pivot, chosenEye))
      WithEyeCandidates(eyeCandidates) ==
        IF Len(eyeCandidates) = 0 THEN degenerateState(shockStroke, g)
        \* eyeCandidates[correctEyeIndex] undefined: reading its x is a TypeError
        ELSE IF rt.correctEyeIndex + 1 > Len(eyeCandidates) THEN Thrown
        ELSE WithChosenEye(eyeCandidates[rt.correctEyeIndex + 1])
  IN  WithEyeCandidates(
        circleCircleIntersection(pivot, g.shockSwingarmMountDistance,
                                 topOutFrameMount(g), currentShockLength))

(***************************************************************************)
(* Second-pass derived metrics (src/lib/kinematics.ts)                     *)
(***************************************************************************)
getIdlerPosition(state, g) ==
  IF g.idlerType = "None" THEN Null
  ELSE IF g.idlerType = "FrameMounted"
    THEN PointAdd(state.bbPosition, Pt(g.idlerX, g.idlerY))
  ELSE
    LET rwr == rearWheelRadius(g)
        topOutIdler == Pt(g.idlerX, Add(g.bbHeight, g.idlerY))
        pivot == topOutPivot(g)
        topOutPivotToAxleVertDist == Sub(rwr, pivot.y)
        topOutPivotToAxleHorizDist ==
          SqrtA(Sub(MulLL(g.swingarmLength, g.swingarmLength),
                    MulLL(topOutPivotToAxleVertDist, topOutPivotToAxleVertDist)))
        topOutAxle == Pt(Sub(pivot.x, topOutPivotToAxleHorizDist), rwr)
    IN  transformPointByReferenceLine(pivot, topOutAxle, topOutIdler,
                                      state.pivotPosition, state.rearAxlePosition)

getFrontSprocketCircle(state, g) ==
  IF g.idlerType = "None"
    THEN [center |-> PointAdd(state.bbPosition,
                              Pt(g.chainringOffsetX, g.chainringOffsetY)),
          radius |-> sprocketRadius(g.chainringTeeth)]
    ELSE [center |-> getIdlerPosition(state, g),
          radius |-> sprocketRadius(g.idlerTeeth)]

\* The closure returned by getApplyPitchRotation: the captured axle with the
\* cosine and sine of -pitch that every call of the closure computes.
getApplyPitchRotation(rearAxle, pitchAngleDegrees) ==
  LET WithPitchRad(pitchRad) ==
        [rearAxle |-> rearAxle, cosA |-> Cos(Neg(pitchRad)), sinA |-> Sin(Neg(pitchRad))]
  IN  WithPitchRad(degreesToRadians(pitchAngleDegrees))

\* applyPitchRotation(point), a call of that closure.
Rotated(applyPitchRotation, point) ==
  LET dx == Sub(point.x, applyPitchRotation.rearAxle.x)
      dy == Sub(point.y, applyPitchRotation.rearAxle.y)
  IN  Pt(Sub(Add(applyPitchRotation.rearAxle.x, MulLR(dx, applyPitchRotation.cosA)),
             MulLR(dy, applyPitchRotation.sinA)),
         Add(Add(applyPitchRotation.rearAxle.y, MulLR(dx, applyPitchRotation.sinA)),
             MulLR(dy, applyPitchRotation.cosA)))

getRotatedCentreOfMass(state, g, applyPitchRotation) ==
  Rotated(applyPitchRotation,
          PointAdd(state.bbPosition, Pt(g.comX, g.comY)))

\* Lines 515-541 of calculateVisualAntiSquat: the chain line met with the
\* line from the pivot to the rear axle, in the pitch-corrected frame.
instantForceCenterOf(state, g, applyPitchRotation) ==
  LET WithChainline(chainline) ==
        lineIntersection(chainline.start, chainline.end,
                         Rotated(applyPitchRotation, state.pivotPosition),
                         Rotated(applyPitchRotation, state.rearAxlePosition))
      WithFrontSprocket(frontSprocket) ==
        WithChainline(tangentPoints(Rotated(applyPitchRotation, frontSprocket.center),
                                    frontSprocket.radius,
                                    Rotated(applyPitchRotation, state.rearAxlePosition),
                                    rearWheelRadius(g)))
  IN  WithFrontSprocket(getFrontSprocketCircle(state, g))

\* Lines 549-576: the line from the rear contact patch through the instant
\* force center, met with the vertical through the front axle.
antiSquatProjection(state, g, applyPitchRotation, instantForceCenter) ==
  LET WithAntiSquatIntersection(antiSquatIntersection) ==
        IF antiSquatIntersection = Null THEN 0
        ELSE Times(100, DivLL(antiSquatIntersection.y,
                              getRotatedCentreOfMass(state, g,
                                                     applyPitchRotation).y))
  IN  WithAntiSquatIntersection(
        lineIntersectionWithVertical(
          Pt(Rotated(applyPitchRotation, state.rearAxlePosition).x, 0),
          instantForceCenter,
          Rotated(applyPitchRotation, state.frontAxlePosition).x))

\* Without the guard of lines 542-547 a missing center is no number; see C10.
antiSquatThroughUnguarded(state, g, applyPitchRotation, instantForceCenter) ==
  IF instantForceCenter = Null THEN NaN
  ELSE antiSquatProjection(state, g, applyPitchRotation, instantForceCenter)

\* Lines 542-576: 0 without an instant force center.
antiSquatThrough(state, g, applyPitchRotation, instantForceCenter) ==
  IF instantForceCenter = Null THEN 0
  ELSE antiSquatProjection(state, g, applyPitchRotation, instantForceCenter)

\* Lines 515-576, with the closure of lines 511-514.
antiSquatWith(state, g, applyPitchRotation) ==
  antiSquatThrough(state, g, applyPitchRotation,
                   instantForceCenterOf(state, g, applyPitchRotation))

calculateVisualAntiSquat(state, g) ==
  antiSquatWith(state, g,
                getApplyPitchRotation(state.rearAxlePosition, state.pitchAngleDegrees))

\* Lines 589-597 of calculateVisualAntiRise.
antiriseIntersectionOf(state, applyPitchRotation) ==
  lineIntersectionWithVertical(Rotated(applyPitchRotation, state.rearAxlePosition),
                               Rotated(applyPitchRotation, state.pivotPosition),
                               Rotated(applyPitchRotation, state.frontAxlePosition).x)

calculateVisualAntiRise(state, g) ==
  LET WithAntiriseIntersection(applyPitchRotation, antiriseIntersection) ==
        IF antiriseIntersection = Null THEN 0
        ELSE Times(100, DivLL(antiriseIntersection.y,
                              getRotatedCentreOfMass(state, g,
                                                     applyPitchRotation).y))
      WithApplyPitchRotation(applyPitchRotation) ==
        WithAntiriseIntersection(applyPitchRotation,
                                 antiriseIntersectionOf(state, applyPitchRotation))
  IN  WithApplyPitchRotation(
        getApplyPitchRotation(state.rearAxlePosition, state.pitchAngleDegrees))

computeTrail(state, g) ==
  LET contactPatch == Pt(state.frontAxlePosition.x, 0)
      WithHtVector(htTopRotated, htVector) ==
        DivAL(Abs(Sub(MulLL(htVector.y, Sub(contactPatch.x, htTopRotated.x)),
                      MulLL(htVector.x, Sub(contactPatch.y, htTopRotated.y)))),
              SqrtA(Add(MulLL(htVector.x, htVector.x), MulLL(htVector.y, htVector.y))))
      WithRotated(htTopRotated, htBottomRotated) ==
        WithHtVector(htTopRotated, PointSubtract(htBottomRotated, htTopRotated))
      WithApplyPitchRotation(applyPitchRotation) ==
        WithRotated(Rotated(applyPitchRotation, headTubeTop(g)),
                    Rotated(applyPitchRotation, headTubeBottom(g)))
  IN  WithApplyPitchRotation(
        getApplyPitchRotation(state.rearAxlePosition, state.pitchAngleDegrees))

(***************************************************************************)
(* Inputs: the default geometry of createDefaultGeometry and variations of *)
(* it, lengths in thousandths of a millimetre, angles and rates in         *)
(* millionths.                                                             *)
(***************************************************************************)
DefaultGeometry ==
  [bbHeight |-> 330000, stack |-> 625000, reach |-> 490000,
   headAngle |-> 64000000, headTubeLength |-> 80000, seatAngle |-> 76000000,
   bbToPivotX |-> -80000, bbToPivotY |-> 210000,
   forkLength |-> 590000, forkOffset |-> 44000,
   totalTravel |-> 150000, swingarmLength |-> 440000,
   shockFrameMountX |-> 30000, shockFrameMountY |-> 70000,
   shockSwingarmMountDistance |-> 190000,
   shockStroke |-> 65000, shockETE |-> 210000, shockSpringRate |-> 60000000,
   chainringTeeth |-> 32, cogTeeth |-> 28,
   chainringOffsetX |-> 0, chainringOffsetY |-> 0,
   idlerType |-> "None", idlerX |-> -60000, idlerY |-> 160000, idlerTeeth |-> 16,
   comX |-> 100000, comY |-> 860000,
   frontWheelDiameter |-> 750000, rearWheelDiameter |-> 750000,
   forkTravel |-> 170000, forkCompressionPercent |-> 0,
   seatTubeLength |-> 320000]

\* Swingarm (100 mm) shorter than the 165 mm between pivot and axle height.
ShortSwingarmGeometry == [DefaultGeometry EXCEPT !.swingarmLength = 100000]

\* Frame mount 480 mm in front of the pivot: the shock never reaches.
NoEyeGeometry == [DefaultGeometry EXCEPT !.shockFrameMountX = 400000,
                                         !.shockFrameMountY = 210000]

\* Frame mount 399.3 mm from the pivot: the shock (190 + 210 at top-out)
\* reaches at strokes 0 and 0.5 mm and no longer from 1 mm on.
LosesEyeGeometry == [DefaultGeometry EXCEPT !.shockFrameMountX = 319300,
                                            !.shockFrameMountY = 210000]

\* Frame mount 50 mm from the pivot and a 240.7 mm shock: too long for the
\* 190 mm mount radius at strokes 0 and 0.5 mm, solvable from 1 mm on.
LongShockGeometry == [DefaultGeometry EXCEPT !.shockFrameMountX = -50000,
                                             !.shockFrameMountY = 250000,
                                             !.shockETE = 240700]

\* Chainring centred on the pivot and wheels of the chainring's radius: the
\* chain line runs parallel to the line from the pivot to the rear axle.
ParallelChainGeometry ==
  [DefaultGeometry EXCEPT
     !.chainringOffsetX = DefaultGeometry.bbToPivotX,
     !.chainringOffsetY = DefaultGeometry.bbToPivotY,
     !.swingarmLength = 600000,
     !.frontWheelDiameter = 2 * sprocketRadius(DefaultGeometry.chainringTeeth),
     !.rearWheelDiameter = 2 * sprocketRadius(DefaultGeometry.chainringTeeth)]

\* Pivot straight above the bottom bracket, a shock that never reaches and a
\* level bike (horizontal steering axis, front axle at wheel-radius height):
\* in every sample the pivot stands straight above the rear axle.
PivotAboveAxleGeometry ==
  [DefaultGeometry EXCEPT !.bbToPivotX = 0,
                          !.shockFrameMountX = 500000,
                          !.shockFrameMountY = 210000,
                          !.headAngle = 0,
                          !.stack = 1000]

\* A 27.5 inch rear wheel (700 mm) behind the 750 mm front wheel.
MulletGeometry == [DefaultGeometry EXCEPT !.rearWheelDiameter = 700000]

\* A fork 50 mm longer than the default: the front end stands higher.
LongForkGeometry == [DefaultGeometry EXCEPT !.forkLength = 640000]

\* Swingarm of 90 mm: too short for the 165 mm to the axle height, so the
\* triangle is the fallback, and shorter than half the 190 mm from the pivot
\* to the shock eye, so the law of cosines at the pivot gives 190 / 180.
TinySwingarmGeometry == [DefaultGeometry EXCEPT !.swingarmLength = 90000]

\* The default geometry with its idler (16 teeth at (-60, 160) from the
\* bottom bracket) mounted on the frame, and on the swingarm.
FrameIdlerGeometry == [DefaultGeometry EXCEPT !.idlerType = "FrameMounted"]
SwingarmIdlerGeometry == [DefaultGeometry EXCEPT !.idlerType = "SwingarmMounted"]

BaseGeometries ==
  {DefaultGeometry, ShortSwingarmGeometry, NoEyeGeometry, LosesEyeGeometry,
   LongShockGeometry, ParallelChainGeometry, PivotAboveAxleGeometry,
   MulletGeometry, LongForkGeometry, FrameIdlerGeometry, SwingarmIdlerGeometry,
   TinySwingarmGeometry}

\* Shock strokes tried: every quarter millimetre up to MaxStrokeQ quarters.
MaxStrokeQ == 9
QuarterMm == Mm \div 4
ShockStrokes == {q * QuarterMm : q \in 0..MaxStrokeQ}

\* Every base geometry at every short stroke, and the default geometry with
\* its own stroke of 65 mm.
Geometries ==
  {[g EXCEPT !.shockStroke = s] : g \in BaseGeometries, s \in ShockStrokes}
    \cup {DefaultGeometry}

(***************************************************************************)
(* runKinematicAnalysis as a state machine: one call, from its first line  *)
(* to its return.                                                          *)
(***************************************************************************)
VARIABLES
  geometry,         \* the argument of the call
  pc,               \* "start", "firstPass", "secondPass", "done" or "threw"
  rigidTriangle,    \* const rigidTriangle
  strokeSteps,      \* const strokeSteps
  step,             \* the first loop's counter
  shockStrokes,     \* the first loop's const shockStroke, iteration by iteration
  firstPassStates,  \* firstPassStates
  i,                \* the second loop's counter
  states, axlePath, frontAxlePath   \* the three arrays of the result

vars == <<geometry, pc, rigidTriangle, strokeSteps, step, shockStrokes,
          firstPassStates, i, states, axlePath, frontAxlePath>>

(***************************************************************************)
(* State around the single call.  The specifications below share these     *)
(* variables; each leaves alone the ones that are not its own.             *)
(***************************************************************************)
VARIABLES
  returned,         \* the calls that have returned: geometry and result
  calls             \* the number of calls made so far

sessionVars == <<returned, calls>>

SessionIdle == returned = {} /\ calls = 1

VARIABLES
  kernelCall,       \* a call of one function of geometry.ts or kinematics.ts
  kernelResult      \* what it returned, Null before it has

kernelVars == <<kernelCall, kernelResult>>

KernelIdle == kernelCall = Null /\ kernelResult = Null

VARIABLES
  mounted,            \* useBikeViewModel's component is mounted
  viewGeometry,       \* const [geometry, setGeometry]
  analysisResults,    \* const [analysisResults, setAnalysisResults]
  isCalculating,      \* const [isCalculating, setIsCalculating]
  currentTravelMM,    \* const [currentTravelMM, setCurrentTravelMM]
  currentForkStroke,  \* const [currentForkStroke, setCurrentForkStroke]
  timer,              \* const timer of the effect that ran last, Null before
  pending,            \* the timeouts set and neither fired nor cleared
  now,                \* the time, in milliseconds
  analysed,           \* the calls of runKinematicAnalysis: geometry and time
  changed,            \* the geometries set, the initial one first, and when
  bikeName,           \* const [bikeName, setBikeName]
  download,           \* the file saveToFile wrote last, Null before
  consoleError        \* what console.error logged last, Null before

viewVars == <<mounted, viewGeometry, analysisResults, isCalculating, currentTravelMM,
              currentForkStroke, timer, pending, now, analysed, changed, bikeName,
              download, consoleError>>

ViewIdle ==
  /\ mounted = FALSE
  /\ viewGeometry = Null
  /\ analysisResults = Null
  /\ isCalculating = FALSE
  /\ currentTravelMM = 0
  /\ currentForkStroke = 0
  /\ timer = Null
  /\ pending = {}
  /\ now = 0
  /\ analysed = <<>>
  /\ changed = <<>>
  /\ bikeName = ""
  /\ download = Null
  /\ consoleError = Null

\* Everything a single call of runKinematicAnalysis leaves alone.
outsideCall == <<sessionVars, kernelVars, viewVars>>

\* const stepSize = 0.5 mm
stepSize == Mm \div 2

\* A sweep that starts one step late; see C2.
strokeOneStepLate(n) == Times(n + 1, stepSize)

\* const shockStroke = step * stepSize
strokeAtStep(n) == Times(n, stepSize)

\* A sample count without the zero-stroke sample; see C1.
strokeStepsWithoutTopOut(g) == Floor(DivLL(g.shockStroke, stepSize))

\* Math.floor(geometry.shockStroke / stepSize) + 1
strokeStepsOf(g) == Floor(DivLL(g.shockStroke, stepSize)) + 1

Init ==
  /\ geometry \in Geometries
  /\ pc = "start"
  /\ rigidTriangle = Null
  /\ strokeSteps = 0
  /\ step = 0
  /\ shockStrokes = <<>>
  /\ firstPassStates = <<>>
  /\ i = 0
  /\ states = <<>>
  /\ axlePath = <<>>
  /\ frontAxlePath = <<>>
  /\ SessionIdle /\ KernelIdle /\ ViewIdle

\* Lines 32-35: the rigid triangle and the number of samples.
Establish ==
  /\ pc = "start"
  /\ rigidTriangle' = establishRigidTriangle(geometry)
  /\ strokeSteps' = strokeStepsOf(geometry)
  /\ step' = 0
  /\ pc' = "firstPass"
  /\ UNCHANGED <<geometry, shockStrokes, firstPassStates, i, states, axlePath,
                 frontAxlePath>>
  /\ UNCHANGED outsideCall

\* Lines 42-57: the entry pushed for a shock stroke, or Thrown.
withProportionalForkStroke(state, proportionalForkStroke) ==
  IF IsThrown(state) THEN Thrown
  ELSE state @@ [proportionalForkStroke |-> proportionalForkStroke]

firstPassEntry(shockStroke, g, rt) ==
  withProportionalForkStroke(
    calculateStateAtShockStroke(shockStroke, g, rt),
    MulLR(g.forkTravel, DivLL(shockStroke, g.shockStroke)))

\* Lines 53-56: firstPassStates.push, or the exception leaving the function.
PushFirstPass(shockStroke, entry) ==
  IF IsThrown(entry)
    THEN /\ pc' = "threw"
         /\ UNCHANGED <<step, shockStrokes, firstPassStates>>
    ELSE /\ firstPassStates' = Append(firstPassStates, entry)
         /\ shockStrokes' = Append(shockStrokes, shockStroke)
         /\ step' = step + 1
         /\ pc' = pc

\* Lines 41-58: one iteration of the first loop.
FirstPassStep ==
  /\ pc = "firstPass"
  /\ step < strokeSteps
  /\ PushFirstPass(strokeAtStep(step),
                   firstPassEntry(strokeAtStep(step), geometry, rigidTriangle))
  /\ UNCHANGED <<geometry, rigidTriangle, strokeSteps, i, states, axlePath, frontAxlePath>>
  /\ UNCHANGED outsideCall

\* Line 41, step < strokeSteps false: on to the second loop (lines 61-65).
FirstPassExit ==
  /\ pc = "firstPass"
  /\ step >= strokeSteps
  /\ pc' = "secondPass"
  /\ i' = 0
  /\ UNCHANGED <<geometry, rigidTriangle, strokeSteps, step, shockStrokes,
                 firstPassStates, states, axlePath, frontAxlePath>>
  /\ UNCHANGED outsideCall

\* Forward differences wherever there is a next sample; see C8.
leverageRatioForward(fps, k) ==
  IF Len(fps) = 1 THEN One
  ELSE IF k = Len(fps) - 1
    THEN DivLL(Sub(fps[k + 1].travelMM, fps[k].travelMM), stepSize)
  ELSE DivLL(Sub(fps[k + 2].travelMM, fps[k + 1].travelMM), stepSize)

\* Lines 124-149: the numerical derivative of travelMM at index k (0-based)
\* of the first-pass sequence fps.
leverageRatioAt(fps, k) ==
  IF k = 0
    THEN (IF Len(fps) > 1
            THEN DivLL(Sub(fps[k + 2].travelMM, fps[k + 1].travelMM), stepSize)
            ELSE One)
  ELSE IF k = Len(fps) - 1
    THEN DivLL(Sub(fps[k + 1].travelMM, fps[k].travelMM), stepSize)
  ELSE DivLL(Sub(fps[k + 2].travelMM, fps[k].travelMM), Times(2, stepSize))

\* The spring rate divided by the leverage ratio once; see C9.
wheelRateLinear(g, leverageRatio) == DivRR(g.shockSpringRate, leverageRatio)

\* Lines 152-153
wheelRateOf(g, leverageRatio) ==
  DivRR(g.shockSpringRate, MulRR(leverageRatio, leverageRatio))

\* A state created with the chainstay length (bottom bracket to rear axle)
\* as its chain lengths; see C29.
createdStateWithChainLength(firstPassState, frontAxlePos, pitchAngleDegrees) ==
  [travelMM |-> firstPassState.travelMM,
   rearAxlePosition |-> firstPassState.rearAxlePosition,
   bbPosition |-> firstPassState.bbPosition,
   pivotPosition |-> firstPassState.pivotPosition,
   swingarmEyePosition |-> firstPassState.swingarmEyePosition,
   shockLength |-> firstPassState.shockLength,
   pitchAngleDegrees |-> pitchAngleDegrees,
   frontAxlePosition |-> frontAxlePos,
   forkCompression |-> firstPassState.proportionalForkStroke,
   leverageRatio |-> 0, wheelRate |-> 0, antiSquat |-> 0, antiRise |-> 0,
   pedalKickback |-> 0,
   chainGrowth |-> distance(firstPassState.bbPosition, firstPassState.rearAxlePosition),
   totalChainGrowth |-> distance(firstPassState.bbPosition, firstPassState.rearAxlePosition),
   trail |-> 0, crankAngle |-> 0]

\* Lines 102-121: the state as created, its derived metrics still zero.
createdState(firstPassState, frontAxlePos, pitchAngleDegrees) ==
  [travelMM |-> firstPassState.travelMM,
   rearAxlePosition |-> firstPassState.rearAxlePosition,
   bbPosition |-> firstPassState.bbPosition,
   pivotPosition |-> firstPassState.pivotPosition,
   swingarmEyePosition |-> firstPassState.swingarmEyePosition,
   shockLength |-> firstPassState.shockLength,
   pitchAngleDegrees |-> pitchAngleDegrees,
   frontAxlePosition |-> frontAxlePos,
   forkCompression |-> firstPassState.proportionalForkStroke,
   leverageRatio |-> 0, wheelRate |-> 0, antiSquat |-> 0, antiRise |-> 0,
   pedalKickback |-> 0, chainGrowth |-> 0, totalChainGrowth |-> 0,
   trail |-> 0, crankAngle |-> 0]

\* Lines 155-161: state.antiSquat, state.antiRise and state.trail, assigned
\* in this order, each computed from the state as it then is.
withAntiSquat(state, g) ==
  [state EXCEPT !.antiSquat = calculateVisualAntiSquat(state, g)]

withAntiRise(state, g) ==
  [state EXCEPT !.antiRise = calculateVisualAntiRise(state, g)]

withTrail(state, g) == [state EXCEPT !.trail = computeTrail(state, g)]

\* Lines 124-153: state.leverageRatio, then state.wheelRate from it.
withLeverageRatio(state, fps, k) ==
  [state EXCEPT !.leverageRatio = leverageRatioAt(fps, k)]

withWheelRate(state, g) ==
  [state EXCEPT !.wheelRate = wheelRateOf(g, state.leverageRatio)]

\* Lines 68-121: the front axle, the pitch angle from it, and the new state.
stateAtFrontAxle(firstPassState, frontAxlePos, g) ==
  createdState(firstPassState, frontAxlePos,
               pitchOf(frontAxlePos, firstPassState.rearAxlePosition, g))

\* A second pass that keeps the uncompressed fork of the first pass.
newStateUncompressedFork(firstPassState, g) ==
  stateAtFrontAxle(
    firstPassState,
    frontAxleOf(firstPassState.bbPosition, g, headTubeAngleRadians(g),
                g.forkLength),
    g)

newState(firstPassState, g) ==
  stateAtFrontAxle(
    firstPassState,
    frontAxleOf(firstPassState.bbPosition, g, headTubeAngleRadians(g),
                Sub(g.forkLength, firstPassState.proportionalForkStroke)),
    g)

\* Lines 66-161: the state built for index k (0-based).
secondPassState(fps, k, g) ==
  withTrail(
    withAntiRise(
      withAntiSquat(
        withWheelRate(withLeverageRatio(newState(fps[k + 1], g), fps, k), g),
        g),
      g),
    g)

\* A variant that takes positions relative to the pivot (see C15).
relativeToPivot(state, position) ==
  Pt(Sub(position.x, state.pivotPosition.x), Sub(position.y, state.pivotPosition.y))

\* Lines 164-171: a position relative to the bottom bracket.
relativeToBB(state, position) ==
  Pt(Sub(position.x, state.bbPosition.x), Sub(position.y, state.bbPosition.y))

\* Lines 163-174: the three pushes.
PushState(state) ==
  /\ states' = Append(states, state)
  /\ axlePath' = Append(axlePath, relativeToBB(state, state.rearAxlePosition))
  /\ frontAxlePath' =
       Append(frontAxlePath, relativeToBB(state, state.frontAxlePosition))

\* Lines 65-175: one iteration of the second loop.
SecondPassStep ==
  /\ pc = "secondPass"
  /\ i < Len(firstPassStates)
  /\ PushState(secondPassState(firstPassStates, i, geometry))
  /\ i' = i + 1
  /\ UNCHANGED <<geometry, pc, rigidTriangle, strokeSteps, step, shockStrokes,
                 firstPassStates>>
  /\ UNCHANGED outsideCall

\* Line 177: return { states, axlePath, frontAxlePath }.
Return ==
  /\ pc = "secondPass"
  /\ i >= Len(firstPassStates)
  /\ pc' = "done"
  /\ UNCHANGED <<geometry, rigidTriangle, strokeSteps, step, shockStrokes,
                 firstPassStates, i, states, axlePath, frontAxlePath>>
  /\ UNCHANGED outsideCall

Next == Establish \/ FirstPassStep \/ FirstPassExit \/ SecondPassStep \/ Return

Spec == Init /\ [][Next]_vars

(***************************************************************************)
(* A caller that calls runKinematicAnalysis several times, one call after  *)
(* the other, with geometries of its choice.                               *)
(***************************************************************************)
CallGeometries ==
  {[g EXCEPT !.shockStroke = s] :
     g \in {DefaultGeometry, LosesEyeGeometry}, s \in {0, Mm}}

MaxCalls == 3

\* An array that still holds what the call before pushed; see C11.
resultArrayOfEarlierCall == states

\* Lines 61-63: const states = [], axlePath = [], frontAxlePath = [].
newResultArray == <<>>

\* What a call returns (line 177).
resultOfCall ==
  [states |-> states, axlePath |-> axlePath, frontAxlePath |-> frontAxlePath]

InitCalls ==
  /\ geometry \in CallGeometries
  /\ pc = "start"
  /\ rigidTriangle = Null
  /\ strokeSteps = 0
  /\ step = 0
  /\ shockStrokes = <<>>
  /\ firstPassStates = <<>>
  /\ i = 0
  /\ states = <<>>
  /\ axlePath = <<>>
  /\ frontAxlePath = <<>>
  /\ SessionIdle /\ KernelIdle /\ ViewIdle

\* The call has returned and the caller calls again: the locals of the new
\* call are new, the arrays of lines 38-40 and 61-63 empty.
CallAgain(g) ==
  /\ pc = "done"
  /\ calls < MaxCalls
  /\ returned' = returned \cup {[geometry |-> geometry, result |-> resultOfCall]}
  /\ calls' = calls + 1
  /\ geometry' = g
  /\ pc' = "start"
  /\ rigidTriangle' = Null
  /\ strokeSteps' = 0
  /\ step' = 0
  /\ shockStrokes' = <<>>
  /\ firstPassStates' = <<>>
  /\ i' = 0
  /\ states' = newResultArray
  /\ axlePath' = newResultArray
  /\ frontAxlePath' = newResultArray
  /\ UNCHANGED <<kernelVars, viewVars>>

NextCall == \E g \in CallGeometries : CallAgain(g)

NextCalls == Next \/ NextCall

SpecCalls == InitCalls /\ [][NextCalls]_<<vars, sessionVars>>

(***************************************************************************)
(* The geometry kernel called directly: one call of one function with      *)
(* arguments of the caller's choice (src/lib/geometry.ts,                  *)
(* src/lib/kinematics.ts getIdlerPosition).                                *)
(***************************************************************************)
\* No call of runKinematicAnalysis is under way.
RunIdle ==
  /\ geometry = Null
  /\ pc = "idle"
  /\ rigidTriangle = Null
  /\ strokeSteps = 0
  /\ step = 0
  /\ shockStrokes = <<>>
  /\ firstPassStates = <<>>
  /\ i = 0
  /\ states = <<>>
  /\ axlePath = <<>>
  /\ frontAxlePath = <<>>

\* Circle arguments in millimetres: centres at distance 0, 5, 7 and sqrt(2),
\* radii that leave the circles apart, touching, crossing and nested.
CircleCalls(fn) ==
  {[fn |-> fn, center1 |-> Pt(0, 0), radius1 |-> r1, center2 |-> c2, radius2 |-> r2] :
     c2 \in {Pt(0, 0), Pt(3 * Mm, 4 * Mm), Pt(7 * Mm, 0), Pt(Mm, Mm)},
     r1 \in {Mm, 3 * Mm, 5 * Mm, 9 * Mm},
     r2 \in {Mm, 2 * Mm, 4 * Mm}}

\* Line arguments: the first line from the origin, 0.01 mm to 4 mm long; the
\* second through points chosen to cross it inside the segments, outside
\* them, not at all, or at a determinant below 0.0001.
LineCalls ==
  {[fn |-> "lineIntersection", line1Point1 |-> Pt(0, 0), line1Point2 |-> p2,
    line2Point1 |-> p3, line2Point2 |-> p4] :
     p2 \in {Pt(Mm, Mm), Pt(4 * Mm, 0), Pt(10, 0)},
     p3 \in {Pt(0, 4 * Mm), Pt(2 * Mm, Mm)},
     p4 \in {Pt(Mm, 3 * Mm), Pt(Mm, 5 * Mm), Pt(4 * Mm, 4 * Mm),
             Pt(0, 4 * Mm + 5), Pt(0, 4 * Mm + 10)}}

\* States handed to getIdlerPosition: the samples at 0, 1 and 30 mm of shock
\* stroke of a geometry, for each idler mount.
IdlerCalls ==
  {[fn |-> "getIdlerPosition",
    state |-> calculateStateAtShockStroke(s, g, establishRigidTriangle(g)),
    geometry |-> g] :
     g \in {[b EXCEPT !.idlerType = t] :
              b \in {DefaultGeometry, LosesEyeGeometry, ShortSwingarmGeometry},
              t \in {"None", "FrameMounted", "SwingarmMounted"}},
     s \in {0, Mm, 30 * Mm}}

\* Samples asked of calculateStateAtShockStroke: strokes of 0, 1 and 30 mm
\* with the triangle that establishRigidTriangle returns for the geometry.
StateCalls ==
  {[fn |-> "calculateStateAtShockStroke", shockStroke |-> s, geometry |-> g,
    rigidTriangle |-> establishRigidTriangle(g)] :
     g \in {DefaultGeometry, ShortSwingarmGeometry, TinySwingarmGeometry,
            NoEyeGeometry, LosesEyeGeometry, LongShockGeometry},
     s \in {0, Mm, 30 * Mm}}

KernelCalls ==
  CircleCalls("circleCircleIntersection") \cup CircleCalls("tangentPoints")
    \cup LineCalls \cup IdlerCalls \cup StateCalls

InitKernel ==
  /\ kernelCall \in KernelCalls
  /\ kernelResult = Null
  /\ RunIdle /\ SessionIdle /\ ViewIdle

\* The call returns: kernelResult holds the returned value.
KernelReturns(fn, value) ==
  /\ kernelCall.fn = fn
  /\ kernelResult = Null
  /\ kernelResult' = [value |-> value]
  /\ UNCHANGED <<kernelCall, vars, sessionVars, viewVars>>

CallCircleCircleIntersection ==
  /\ kernelCall.fn = "circleCircleIntersection"
  /\ KernelReturns("circleCircleIntersection",
                   circleCircleIntersection(kernelCall.center1, kernelCall.radius1,
                                            kernelCall.center2, kernelCall.radius2))

CallLineIntersection ==
  /\ kernelCall.fn = "lineIntersection"
  /\ KernelReturns("lineIntersection",
                   lineIntersection(kernelCall.line1Point1, kernelCall.line1Point2,
                                    kernelCall.line2Point1, kernelCall.line2Point2))

CallTangentPoints ==
  /\ kernelCall.fn = "tangentPoints"
  /\ KernelReturns("tangentPoints",
                   tangentPoints(kernelCall.center1, kernelCall.radius1,
                                 kernelCall.center2, kernelCall.radius2))

CallGetIdlerPosition ==
  /\ kernelCall.fn = "getIdlerPosition"
  /\ KernelReturns("getIdlerPosition",
                   getIdlerPosition(kernelCall.state, kernelCall.geometry))

CallCalculateStateAtShockStroke ==
  /\ kernelCall.fn = "calculateStateAtShockStroke"
  /\ KernelReturns("calculateStateAtShockStroke",
                   calculateStateAtShockStroke(kernelCall.shockStroke, kernelCall.geometry,
                                               kernelCall.rigidTriangle))

NextKernel ==
  \/ CallCircleCircleIntersection
  \/ CallLineIntersection
  \/ CallTangentPoints
  \/ CallGetIdlerPosition
  \/ CallCalculateStateAtShockStroke

SpecKernel == InitKernel /\ [][NextKernel]_kernelVars

(***************************************************************************)
(* useBikeViewModel (src/unnamed/part_000): the design, the debounced      *)
(* effect that analyses its geometry, and the passing of time.             *)
(***************************************************************************)
\* runKinematicAnalysis(geometry) as one value: the loop of lines 41-58, the
\* loop of lines 64-175 and the object of line 177.
firstPassOf(g, rt) ==
  [k \in 1..strokeStepsOf(g) |-> firstPassEntry(strokeAtStep(k - 1), g, rt)] \o <<>>

secondPassOf(fps, g) ==
  [k \in 1..Len(fps) |-> secondPassState(fps, k - 1, g)] \o <<>>

resultsOf(sts) ==
  [states |-> sts,
   axlePath |-> [k \in 1..Len(sts) |-> relativeToBB(sts[k], sts[k].rearAxlePosition)],
   frontAxlePath |->
     [k \in 1..Len(sts) |-> relativeToBB(sts[k], sts[k].frontAxlePosition)]]

runKinematicAnalysis(g) ==
  resultsOf(secondPassOf(firstPassOf(g, establishRigidTriangle(g)), g))

\* The delay of setTimeout, line 65, in milliseconds.
TimerDelay == 100

\* The clock advances in steps of TickMs up to MaxNow, and further while a
\* timeout is pending; at most MaxEdits geometries are set after the initial
\* one.
TickMs == 50
MaxNow == 100
MaxEdits == 2

\* JSON's null where the text holds a number: what JSON.stringify writes for
\* NaN and the infinities, and what JSON.parse reads back.
JsonNull == 2 * 10^9 + 9

\* A value is an object unless it is the number of a "geometry": 7.
IsObject(v) == "number" \notin DOMAIN v

\* The arguments of updateGeometry: partial geometries.  The last one is the
\* shock stroke field cleared (InputPanel passes valueAsNumber, NaN then).
GeometryUpdates ==
  {[shockStroke |-> Mm], [shockStroke |-> Mm \div 2, swingarmLength |-> 450000],
   [shockStroke |-> NaN]}

\* The names typed into the name field: the field cleared.
BikeNames == {""}

\* The content of the files handed to loadFromFile: the JSON value the text
\* stands for, or a text that is not JSON.
NotJson == [syntaxError |-> TRUE]
NullDocument == [null |-> TRUE]
LoadedDesign ==
  [object |-> [name |-> "Loaded",
               geometry |-> [LosesEyeGeometry EXCEPT !.shockStroke = Mm]]]
EmptyDesign == [object |-> [name |-> "Empty"]]
NumberDesign == [object |-> [name |-> "Seven", geometry |-> [number |-> 7]]]
Designs == {LoadedDesign, EmptyDesign, NumberDesign}
Files == Designs \cup {NotJson, NullDocument}

\* JSON.stringify(design, null, 2), line 76: a number that is not finite is
\* written as null, every other member as it is.
stringifyNumber(x) == IF IsFinite(x) THEN x ELSE JsonNull

stringifyValue(v) ==
  IF IsObject(v)
    THEN [f \in DOMAIN v |-> IF f = "idlerType" THEN v[f] ELSE stringifyNumber(v[f])]
    ELSE v

JsonStringify(design) ==
  [object |-> [name |-> design.name, geometry |-> stringifyValue(design.geometry)]]

\* JSON.parse(content), line 93: a SyntaxError for a text that is not JSON,
\* null for the text null, the object otherwise.
JsonParse(content) ==
  IF "syntaxError" \in DOMAIN content THEN Thrown
  ELSE IF "null" \in DOMAIN content THEN Null
  ELSE content.object

\* design.name || "Loaded Design", line 94.
nameOr(design) ==
  IF "name" \in DOMAIN design /\ design.name # "" THEN design.name ELSE "Loaded Design"

\* design.geometry || createDefaultGeometry(), line 95: the default for a
\* missing member and for null, false, 0 and "".
geometryOr(design) ==
  IF "geometry" \in DOMAIN design /\ design.geometry \notin {Null, [number |-> 0]}
    THEN design.geometry
    ELSE DefaultGeometry

\* {...prev, ...updates}, line 71: a number has no members to spread.
spreadOver(prev, updates) == IF IsObject(prev) THEN updates @@ prev ELSE updates

\* The geometry as runKinematicAnalysis reads it: a missing field is
\* undefined and NaN in arithmetic, null is 0.
GeometryFields == DOMAIN DefaultGeometry

asRead(v) ==
  [f \in GeometryFields |->
     IF f = "idlerType" THEN (IF f \in DOMAIN v THEN v[f] ELSE "undefined")
     ELSE IF f \notin DOMAIN v THEN NaN
     ELSE IF v[f] = JsonNull THEN 0
     ELSE v[f]]

\* The results of the first render, lines 42-46.
EmptyResults == [states |-> <<>>, axlePath |-> <<>>, frontAxlePath |-> <<>>]

\* runKinematicAnalysis(geometry) for a geometry as read.  With a shock
\* stroke of NaN strokeSteps is NaN and neither loop runs.
analysisOf(g) ==
  IF IsNaN(g.shockStroke) THEN EmptyResults ELSE runKinematicAnalysis(g)

\* The results for the geometry of createDefaultGeometry(), the geometry of
\* the first render and of resetToDefaults.
DefaultAnalysisResults == runKinematicAnalysis(DefaultGeometry)

\* The geometries the edits of GeometryUpdates make of the default one, and
\* their results, computed once.
EditedGeometries ==
  <<[DefaultGeometry EXCEPT !.shockStroke = Mm],
    [DefaultGeometry EXCEPT !.shockStroke = NaN],
    [DefaultGeometry EXCEPT !.shockStroke = Mm \div 2, !.swingarmLength = 450000],
    [DefaultGeometry EXCEPT !.shockStroke = Mm, !.swingarmLength = 450000],
    [DefaultGeometry EXCEPT !.shockStroke = NaN, !.swingarmLength = 450000]>>

EditedAnalysisResults ==
  [k \in 1..Len(EditedGeometries) |-> analysisOf(EditedGeometries[k])] \o <<>>

IndexOfEdited(g) == CHOOSE k \in 1..Len(EditedGeometries) : EditedGeometries[k] = g

\* const results = runKinematicAnalysis(geometry), line 58.
resultsFor(g) ==
  IF g = DefaultGeometry THEN DefaultAnalysisResults
  ELSE IF \E k \in 1..Len(EditedGeometries) : EditedGeometries[k] = g
    THEN EditedAnalysisResults[IndexOfEdited(g)]
  ELSE analysisOf(g)

\* The number of samples of those results.
samplesFor(g) == IF IsNaN(g.shockStroke) THEN 0 ELSE strokeStepsOf(g)

\* A variant of clearTimeout that leaves the timeout pending (see C20).
clearTimeoutIgnored(timeouts, t) == timeouts

\* clearTimeout(timer), line 68.
clearTimeout(timeouts, t) == timeouts \ {t}

\* setTimeout(callback, 100), lines 55-65: the callback holds the geometry of
\* the render that ran the effect.
setTimeoutFor(g, id) == [id |-> id, due |-> now + TimerDelay, geometry |-> g]

\* Everything the view model leaves alone.
outsideView == <<vars, sessionVars, kernelVars>>

InitView ==
  /\ mounted = FALSE
  /\ viewGeometry = DefaultGeometry
  /\ analysisResults = EmptyResults
  /\ isCalculating = FALSE
  /\ currentTravelMM = 0
  /\ currentForkStroke = 0
  /\ timer = Null
  /\ pending = {}
  /\ now = 0
  /\ analysed = <<>>
  /\ changed = <<>>
  /\ bikeName = "Custom Build"
  /\ download = Null
  /\ consoleError = Null
  /\ RunIdle /\ SessionIdle /\ KernelIdle

\* Lines 54-69 for a render with geometry g: the cleanup of the effect that
\* ran before, then the effect.  file is the content loadFromFile took the
\* geometry from, Null for any other cause.
RunEffect(g, file) ==
  /\ timer' = setTimeoutFor(g, Len(changed) + 1)
  /\ pending' = clearTimeout(pending, timer) \cup {setTimeoutFor(g, Len(changed) + 1)}
  /\ changed' = Append(changed, [at |-> now, geometry |-> g, file |-> file])

\* The component mounts: the effect runs for the initial geometry.
Mount ==
  /\ ~mounted
  /\ changed = <<>>
  /\ mounted' = TRUE
  /\ RunEffect(viewGeometry, Null)
  /\ UNCHANGED <<viewGeometry, analysisResults, isCalculating, currentTravelMM,
                 currentForkStroke, now, analysed, bikeName, download, consoleError>>
  /\ UNCHANGED outsideView

\* setGeometry(g) and the render that follows: a new geometry object, so the
\* effect of lines 54-69 runs again.  Setting the number that is already set
\* renders nothing.
SetGeometry(g, file) ==
  /\ mounted
  /\ Len(changed) <= MaxEdits
  /\ viewGeometry' = g
  /\ IF ~IsObject(g) /\ g = viewGeometry
       THEN UNCHANGED <<timer, pending, changed>>
       ELSE RunEffect(g, file)
  /\ UNCHANGED <<mounted, analysisResults, isCalculating, currentTravelMM,
                 currentForkStroke, now, analysed, download>>
  /\ UNCHANGED outsideView

\* Lines 70-72: setGeometry(prev => ({...prev, ...updates})).
UpdateGeometry ==
  \E updates \in GeometryUpdates :
    /\ SetGeometry(spreadOver(viewGeometry, updates), Null)
    /\ UNCHANGED <<bikeName, consoleError>>

\* setBikeName(name), of the name field.
SetBikeName ==
  \E name \in BikeNames :
    /\ mounted
    /\ bikeName' = name
    /\ UNCHANGED <<mounted, viewGeometry, analysisResults, isCalculating,
                   currentTravelMM, currentForkStroke, timer, pending, now, analysed,
                   changed, download, consoleError>>
    /\ UNCHANGED outsideView

\* Lines 74-86: the design is written to a file the browser downloads.
SaveToFile ==
  /\ mounted
  /\ download' = [design |-> [name |-> bikeName, geometry |-> viewGeometry],
                  content |-> JsonStringify([name |-> bikeName,
                                             geometry |-> viewGeometry])]
  /\ UNCHANGED <<mounted, viewGeometry, analysisResults, isCalculating, currentTravelMM,
                 currentForkStroke, timer, pending, now, analysed, changed, bikeName,
                 consoleError>>
  /\ UNCHANGED outsideView

\* The errors of lines 93 and 94.
SyntaxError == [name |-> "SyntaxError"]
TypeError == [name |-> "TypeError"]

\* Lines 96-98: the catch block logs the error and sets nothing.
LoadFails(error) ==
  /\ mounted
  /\ consoleError' = error
  /\ UNCHANGED <<mounted, viewGeometry, analysisResults, isCalculating, currentTravelMM,
                 currentForkStroke, timer, pending, now, analysed, changed, bikeName,
                 download>>
  /\ UNCHANGED outsideView

\* Lines 94-95 for a design that is not null.
LoadSets(design, content) ==
  /\ bikeName' = nameOr(design)
  /\ SetGeometry(geometryOr(design), content)
  /\ UNCHANGED consoleError

\* Lines 90-99, reader.onload for a file of the given content: JSON.parse
\* throws a SyntaxError, or design.name a TypeError when the design is null.
LoadFile(content) ==
  IF IsThrown(JsonParse(content)) THEN LoadFails(SyntaxError)
  ELSE IF JsonParse(content) = Null THEN LoadFails(TypeError)
  ELSE LoadSets(JsonParse(content), content)

\* The files there are to load: the given ones and the one downloaded.
FilesToLoad == Files \cup (IF download = Null THEN {} ELSE {download.content})

\* Lines 88-101.
LoadFromFile == \E content \in FilesToLoad : LoadFile(content)

\* Lines 103-106: setGeometry(createDefaultGeometry()); setBikeName("Custom Build").
ResetToDefaults ==
  /\ SetGeometry(DefaultGeometry, Null)
  /\ bikeName' = "Custom Build"
  /\ UNCHANGED consoleError

\* A variant that stores the results and leaves the sliders where they are
\* (see C30).
StoreResultsOnly(results) ==
  IF IsThrown(results)
    THEN UNCHANGED <<analysisResults, currentTravelMM, currentForkStroke>>
    ELSE /\ analysisResults' = results
         /\ UNCHANGED <<currentTravelMM, currentForkStroke>>

\* Lines 58-61: the results are stored and the sliders reset, unless the
\* analysis threw.
StoreResults(results) ==
  IF IsThrown(results)
    THEN UNCHANGED <<analysisResults, currentTravelMM, currentForkStroke>>
    ELSE /\ analysisResults' = results
         /\ currentTravelMM' = 0
         /\ currentForkStroke' = 0

\* Lines 55-64: a timeout that is due fires; its callback analyses the
\* geometry it holds and stores the results; isCalculating is set to false
\* in the finally block, whether the analysis returned or threw.
TimerFires ==
  \E t \in pending :
    /\ now >= t.due
    /\ pending' = pending \ {t}
    /\ StoreResults(resultsFor(asRead(t.geometry)))
    /\ isCalculating' = FALSE
    /\ analysed' = Append(analysed, [at |-> now, timer |-> t.id, geometry |-> t.geometry,
                                     latest |-> Len(changed)])
    /\ UNCHANGED <<mounted, viewGeometry, timer, now, changed, bikeName, download,
                   consoleError>>
    /\ UNCHANGED outsideView

\* Time passes, unless a timeout is due: that one fires first.
Tick ==
  /\ mounted
  /\ now < MaxNow \/ pending # {}
  /\ \A t \in pending : now < t.due
  /\ now' = now + TickMs
  /\ UNCHANGED <<mounted, viewGeometry, analysisResults, isCalculating, currentTravelMM,
                 currentForkStroke, timer, pending, analysed, changed, bikeName,
                 download, consoleError>>
  /\ UNCHANGED outsideView

\* The component unmounts: the cleanup of line 68 runs.
Unmount ==
  /\ mounted
  /\ mounted' = FALSE
  /\ pending' = clearTimeout(pending, timer)
  /\ UNCHANGED <<viewGeometry, analysisResults, isCalculating, currentTravelMM,
                 currentForkStroke, timer, now, analysed, changed, bikeName, download,
                 consoleError>>
  /\ UNCHANGED outsideView

NextView ==
  \/ Mount
  \/ UpdateGeometry
  \/ ResetToDefaults
  \/ TimerFires
  \/ Tick
  \/ Unmount

SpecView == InitView /\ [][NextView]_viewVars

(***************************************************************************)
(* useBikeViewModel's design and its files: the name, the geometry, saving *)
(* and loading, with no time passing.                                      *)
(***************************************************************************)
NextFiles ==
  \/ Mount
  \/ UpdateGeometry
  \/ SetBikeName
  \/ SaveToFile
  \/ LoadFromFile
  \/ ResetToDefaults

SpecFiles == InitView /\ [][NextFiles]_viewVars

(***************************************************************************)
(* useBikeViewModel with its sliders and a clock that keeps running: the   *)
(* browser runs a timeout once it is due, and time passes.                 *)
(***************************************************************************)
\* The positions the travel and fork sliders are moved to.
SliderPositions == {25 * Mm}

\* setCurrentTravelMM(position), of the travel slider.
SetCurrentTravelMM ==
  \E position \in SliderPositions :
    /\ mounted
    /\ currentTravelMM' = position
    /\ UNCHANGED <<mounted, viewGeometry, analysisResults, isCalculating,
                   currentForkStroke, timer, pending, now, analysed, changed, bikeName,
                   download, consoleError>>
    /\ UNCHANGED outsideView

\* setCurrentForkStroke(position), of the fork slider.
SetCurrentForkStroke ==
  \E position \in SliderPositions :
    /\ mounted
    /\ currentForkStroke' = position
    /\ UNCHANGED <<mounted, viewGeometry, analysisResults, isCalculating,
                   currentTravelMM, timer, pending, now, analysed, changed, bikeName,
                   download, consoleError>>
    /\ UNCHANGED outsideView

NextViewLive ==
  \/ Mount
  \/ UpdateGeometry
  \/ SetCurrentTravelMM
  \/ SetCurrentForkStroke
  \/ TimerFires
  \/ Tick
  \/ Unmount

SpecViewLive ==
  InitView /\ [][NextViewLive]_viewVars /\ WF_viewVars(TimerFires) /\ WF_viewVars(Tick)

(***************************************************************************)
(* Properties of runKinematicAnalysis.  Sequences count from 1: states[k]  *)
(* is the source's states[k - 1].                                          *)
(***************************************************************************)
Returned == pc = "done"

\* floor(shockStroke / 0.5) + 1 for the geometry of the run.
SamplesExpected == (geometry.shockStroke \div stepSize) + 1

\* C1: for a geometry with shockStroke >= 0, runKinematicAnalysis returns
\* states, axlePath and frontAxlePath of the same length, and that length is
\* floor(shockStroke / 0.5) + 1 (131 for shockStroke = 65).
C1_SameLengthSampleCount ==
  /\ Len(axlePath) = Len(states)
  /\ Len(frontAxlePath) = Len(states)
  /\ (Returned /\ geometry.shockStroke >= 0) => Len(states) = SamplesExpected
  /\ (Returned /\ geometry.shockStroke = 65 * Mm) => Len(states) = 131

C1_Witness ==
  /\ Returned
  /\ geometry.shockStroke = 65 * Mm
  /\ Len(states) = 131 /\ Len(axlePath) = 131 /\ Len(frontAxlePath) = 131

\* C2: sample i is solved at shock stroke i x 0.5 mm, in increasing index
\* order: the first sample is the zero-stroke one, the strokes increase
\* strictly with the index, the last stroke is the largest multiple of 0.5
\* not above geometry.shockStroke, and states[i] is built from sample i.
C2_StrokeOrder ==
  /\ Len(shockStrokes) = Len(firstPassStates)
  /\ \A k \in 1..Len(shockStrokes) : shockStrokes[k] = (k - 1) * stepSize
  /\ \A k \in 2..Len(shockStrokes) : shockStrokes[k] > shockStrokes[k - 1]
  /\ \A k \in 1..Len(states) :
       /\ states[k].travelMM = firstPassStates[k].travelMM
       /\ states[k].forkCompression = firstPassStates[k].proportionalForkStroke
  /\ (Returned /\ geometry.shockStroke >= 0) =>
       /\ shockStrokes[1] = 0
       /\ shockStrokes[Len(shockStrokes)] <= geometry.shockStroke
       /\ geometry.shockStroke < shockStrokes[Len(shockStrokes)] + stepSize

C2_Witness ==
  /\ Returned
  /\ geometry.shockStroke = 7 * QuarterMm
  /\ shockStrokes = <<0, stepSize, 2 * stepSize, 3 * stepSize>>
  /\ Len(states) = 4

\* C3: runKinematicAnalysis never throws for a structurally complete
\* geometry, the geometrically infeasible ones included (shock circles that
\* do not intersect, swingarm too short, chain line parallel to the
\* pivot-axle line): no call ends in an exception, every finished call has
\* returned its three arrays.
C3_NeverThrows ==
  /\ pc # "threw"
  /\ \A k \in 1..Len(firstPassStates) : ~IsThrown(firstPassStates[k])

C3_Witness ==
  /\ Returned
  /\ geometry.swingarmLength = ShortSwingarmGeometry.swingarmLength
  /\ rigidTriangle.correctEyeIndex = 0
  /\ Len(states) = 5

\* The shock-eye candidates of sample k: the circle about the pivot met with
\* the circle of the current shock length about the frame mount.
EyeCandidatesAt(k) ==
  circleCircleIntersection(topOutPivot(geometry),
                           geometry.shockSwingarmMountDistance,
                           topOutFrameMount(geometry),
                           geometry.shockETE - shockStrokes[k])

\* The fallback triangle of establishRigidTriangle, field by field.
FallbackOfRun ==
  [pivotToEye |-> geometry.shockSwingarmMountDistance,
   pivotToAxle |-> geometry.swingarmLength,
   eyeToAxle |-> geometry.swingarmLength,
   correctEyeIndex |-> 0,
   axleAngleIsPositive |-> TRUE]

\* A feasible geometry: the triangle was established at top-out and the
\* shock eye has a solution at every sampled stroke.
FeasibleRun ==
  /\ rigidTriangle # FallbackOfRun
  /\ \A k \in 1..Len(shockStrokes) : EyeCandidatesAt(k) # <<>>

\* 0.1 mm
Tolerance == Mm \div 10

Within(a, b) == IsFinite(a) /\ IsFinite(b) /\ AbsInt(a - b) <= Tolerance

PivotToEye(state) == distance(state.pivotPosition, state.swingarmEyePosition)
PivotToAxle(state) == distance(state.pivotPosition, state.rearAxlePosition)
EyeToAxle(state) == distance(state.swingarmEyePosition, state.rearAxlePosition)

\* C4: for a feasible geometry, in every returned state the distances
\* pivot-eye, pivot-axle and eye-axle equal their values in states[0]
\* (top-out) within 0.1 mm.
C4_RigidTriangleInvariance ==
  (Returned /\ FeasibleRun) =>
    \A k \in 1..Len(states) :
      /\ Within(PivotToEye(states[k]), PivotToEye(states[1]))
      /\ Within(PivotToAxle(states[k]), PivotToAxle(states[1]))
      /\ Within(EyeToAxle(states[k]), EyeToAxle(states[1]))

\* The whole 65 mm of the default geometry: the bottom bracket has sunk by
\* more than 150 mm in the last state.
C4_Witness ==
  /\ Returned /\ FeasibleRun
  /\ Len(states) = 131
  /\ states[131].travelMM > 150 * Mm
  /\ Within(EyeToAxle(states[131]), EyeToAxle(states[1]))

\* The axle of sample k as the source places it for a triangle rt.
AxleBySign(k, rt, eye) ==
  polarFrom(topOutPivot(geometry), rt.pivotToAxle,
            IF rt.axleAngleIsPositive
              THEN Add(angle(topOutPivot(geometry), eye),
                       Acos(cosAngleOf(distance(topOutPivot(geometry), eye),
                                       rt.pivotToAxle, rt.eyeToAxle)))
              ELSE Sub(angle(topOutPivot(geometry), eye),
                       Acos(cosAngleOf(distance(topOutPivot(geometry), eye),
                                       rt.pivotToAxle, rt.eyeToAxle))))

\* C5: the eye-candidate index and the axle angle-sign flag are chosen once
\* per run by establishRigidTriangle at top-out: from then on the triangle of
\* the run is the one establishRigidTriangle returned, and every solved
\* sample has the eye candidate at that index and the axle on that side.
C5_OrientationChosenOnce ==
  /\ pc # "start" => rigidTriangle = establishRigidTriangle(geometry)
  /\ Returned =>
       \A k \in 1..Len(firstPassStates) :
         EyeCandidatesAt(k) # <<>> =>
           /\ firstPassStates[k].swingarmEyePosition.x =
                EyeCandidatesAt(k)[rigidTriangle.correctEyeIndex + 1].x
           /\ firstPassStates[k].rearAxlePosition.x =
                AxleBySign(k, rigidTriangle,
                           EyeCandidatesAt(k)[rigidTriangle.correctEyeIndex + 1]).x

\* A run whose triangle has the second candidate and the negative side, and
\* whose two candidates differ in every sample.
C5_Witness ==
  /\ Returned
  /\ Len(firstPassStates) = 5
  /\ rigidTriangle.correctEyeIndex = 1
  /\ ~rigidTriangle.axleAngleIsPositive
  /\ \A k \in 1..5 :
       /\ Len(EyeCandidatesAt(k)) = 2
       /\ EyeCandidatesAt(k)[1].x # EyeCandidatesAt(k)[2].x
       /\ firstPassStates[k].swingarmEyePosition.x = EyeCandidatesAt(k)[2].x

\* swingarmLength below the vertical distance from the pivot to the height
\* of the rear axle at top-out.
SwingarmTooShort ==
  geometry.swingarmLength <
    AbsInt(rearWheelRadius(geometry) - (geometry.bbHeight + geometry.bbToPivotY))

\* C6: when swingarmLength is shorter than the vertical distance between the
\* main pivot and the rear-axle height at top-out, establishRigidTriangle
\* returns the fallback triangle without raising, and the run still returns
\* floor(shockStroke / 0.5) + 1 states.
C6_ShortSwingarmFallback ==
  SwingarmTooShort =>
    /\ pc # "threw"
    /\ pc # "start" => rigidTriangle = FallbackOfRun
    /\ Returned => Len(states) = SamplesExpected

C6_Witness ==
  /\ SwingarmTooShort
  /\ Returned
  /\ rigidTriangle = FallbackOfRun
  /\ Len(EyeCandidatesAt(1)) = 2
  /\ Len(states) = 5

\* The degenerate state of calculateStateAtShockStroke at shock stroke s.
IsDegenerateAt(state, s) ==
  /\ state.travelMM = 0
  /\ state.pitchAngleDegrees = 0
  /\ state.rearAxlePosition = Pt(0, rearWheelRadius(geometry))
  /\ state.bbPosition = Pt(0, geometry.bbHeight)
  /\ state.swingarmEyePosition = Pt(0, 0)
  /\ state.shockLength = geometry.shockETE - s

\* C7: when the shock-eye circles have no intersection at a sampled stroke,
\* calculateStateAtShockStroke does not throw and returns the degenerate
\* state (travelMM 0, pitch 0, rear axle (0, rear wheel radius), BB
\* (0, bbHeight), eye (0, 0), shockLength = shockETE - stroke), and the sweep
\* goes on: the sequence is not shortened.
C7_DegenerateSample ==
  /\ pc # "threw"
  /\ Returned =>
       /\ Len(firstPassStates) = SamplesExpected
       /\ Len(states) = SamplesExpected
       /\ \A k \in 1..Len(firstPassStates) :
            EyeCandidatesAt(k) = <<>> =>
              /\ ~IsThrown(firstPassStates[k])
              /\ IsDegenerateAt(firstPassStates[k], shockStrokes[k])

\* Samples without a solution followed by solved samples, and the reverse.
C7_Witness ==
  /\ Returned
  /\ Len(states) = 5
  /\ EyeCandidatesAt(2) = <<>>
  /\ IsDegenerateAt(firstPassStates[2], stepSize)
  /\ EyeCandidatesAt(3) # <<>>
  /\ states[3].travelMM > 0

\* The first-pass travelMM of sample k, and the difference quotients of the
\* travel sequence over the 0.5 mm step.
TravelAt(k) == firstPassStates[k].travelMM
ForwardQuotient(k) == DivLL(Sub(TravelAt(k + 1), TravelAt(k)), Mm \div 2)
BackwardQuotient(k) == DivLL(Sub(TravelAt(k), TravelAt(k - 1)), Mm \div 2)
CentralQuotient(k) == DivLL(Sub(TravelAt(k + 1), TravelAt(k - 1)), Mm)

\* C8 as stated: leverageRatio of state i is (t[i+1] - t[i-1]) / 1.0 at every
\* interior index, (t[1] - t[0]) / 0.5 at i = 0 and (t[n-1] - t[n-2]) / 0.5 at
\* the last index; the end quotients need a second sample.
C8_AsStated ==
  Returned =>
    \A k \in 1..Len(states) :
      IF 1 < k /\ k < Len(states)
        THEN states[k].leverageRatio = CentralQuotient(k)
        ELSE /\ Len(states) > 1
             /\ k = 1 => states[k].leverageRatio = ForwardQuotient(k)
             /\ k = Len(states) => states[k].leverageRatio = BackwardQuotient(k)

\* C8, amended: in a run of at least two samples leverageRatio of state i is
\* the central quotient (t[i+1] - t[i-1]) / 1.0 at every interior index, the
\* forward quotient (t[1] - t[0]) / 0.5 at i = 0 and the backward quotient
\* (t[n-1] - t[n-2]) / 0.5 at the last index; in a run of a single sample
\* (shockStroke below 0.5) it is 1.0.
C8_LeverageRatioQuotients ==
  Returned =>
    \A k \in 1..Len(states) :
      IF Len(states) = 1 THEN states[k].leverageRatio = One
      ELSE IF k = 1 THEN states[k].leverageRatio = ForwardQuotient(k)
      ELSE IF k = Len(states) THEN states[k].leverageRatio = BackwardQuotient(k)
      ELSE states[k].leverageRatio = CentralQuotient(k)

\* An interior state whose central quotient differs from both one-sided ones.
C8_Witness ==
  /\ Returned
  /\ Len(states) = 131
  /\ \E k \in 2..130 :
       /\ states[k].leverageRatio = CentralQuotient(k)
       /\ CentralQuotient(k) # ForwardQuotient(k)
       /\ CentralQuotient(k) # BackwardQuotient(k)
       /\ states[k].leverageRatio > One

PitchRotationAt(k) ==
  getApplyPitchRotation(states[k].rearAxlePosition, states[k].pitchAngleDegrees)

\* lineIntersection finds no point for the chain line and the pivot-axle
\* line of state k; the anti-rise projection of state k finds none.
NoInstantForceCenterAt(k) ==
  instantForceCenterOf(states[k], geometry, PitchRotationAt(k)) = Null

NoAntiRiseIntersectionAt(k) ==
  antiriseIntersectionOf(states[k], PitchRotationAt(k)) = Null

\* C10: when the chain line and the pivot-to-axle line of a sample are
\* parallel (lineIntersection returns no point) the sample's antiSquat is 0,
\* and when the anti-rise projection finds no intersection its antiRise is
\* 0; the run is not aborted: the sample is appended and the later samples
\* are produced.
C10_NeutralMetrics ==
  /\ pc # "threw"
  /\ Returned =>
       /\ Len(states) = SamplesExpected
       /\ \A k \in 1..Len(states) :
            /\ NoInstantForceCenterAt(k) => states[k].antiSquat = 0
            /\ NoAntiRiseIntersectionAt(k) => states[k].antiRise = 0

\* A run of five samples in which the first lacks both intersections.
C10_Witness ==
  /\ Returned
  /\ Len(states) = 5
  /\ NoInstantForceCenterAt(1) /\ states[1].antiSquat = 0
  /\ NoAntiRiseIntersectionAt(1) /\ states[1].antiRise = 0

AboutRearContact(state) ==
  getApplyPitchRotation(Pt(state.rearAxlePosition.x, 0), state.pitchAngleDegrees)

RotatedRearAxle(state) == Rotated(AboutRearContact(state), state.rearAxlePosition)
RotatedFrontAxle(state) == Rotated(AboutRearContact(state), state.frontAxlePosition)


RearAxleDrop(state) ==
  Sub(rearWheelRadius(geometry),
      MulLR(rearWheelRadius(geometry), Cos(degreesToRadians(state.pitchAngleDegrees))))

C14_RearAxleAtWheelRadius ==
  Returned =>
    \A k \in 1..Len(states) :
      /\ IsFinite(states[k].rearAxlePosition.y)
      /\ 2 * states[k].rearAxlePosition.y = geometry.rearWheelDiameter

\* A run of solved samples, lowered by a ground offset, followed by
\* degenerate ones.
C14_Witness ==
  /\ Returned
  /\ Len(states) = 5
  /\ EyeCandidatesAt(2) # <<>>
  /\ states[2].bbPosition.y # geometry.bbHeight
  /\ 2 * states[2].rearAxlePosition.y = geometry.rearWheelDiameter
  /\ EyeCandidatesAt(3) = <<>>
  /\ states[3].rearAxlePosition = Pt(0, geometry.rearWheelDiameter \div 2)


\* The JavaScript difference a - b of two coordinates.
Minus(a, b) == IF IsFinite(a) /\ IsFinite(b) THEN a - b ELSE Sub(a, b)

\* C15: axlePath[i] is states[i].rearAxlePosition minus states[i].bbPosition
\* and frontAxlePath[i] is states[i].frontAxlePosition minus
\* states[i].bbPosition, component by component.
C15_PathsRelativeToBB ==
  /\ Len(axlePath) = Len(states)
  /\ Len(frontAxlePath) = Len(states)
  /\ \A k \in 1..Len(states) :
       /\ axlePath[k].x = Minus(states[k].rearAxlePosition.x, states[k].bbPosition.x)
       /\ axlePath[k].y = Minus(states[k].rearAxlePosition.y, states[k].bbPosition.y)
       /\ frontAxlePath[k].x = Minus(states[k].frontAxlePosition.x, states[k].bbPosition.x)
       /\ frontAxlePath[k].y = Minus(states[k].frontAxlePosition.y, states[k].bbPosition.y)

\* The default 65 mm run: the bottom bracket sinks, so the last path points
\* differ from the first and from the absolute axle positions.
C15_Witness ==
  /\ Returned
  /\ Len(axlePath) = 131
  /\ states[131].bbPosition.y < states[1].bbPosition.y
  /\ axlePath[131] # axlePath[1]
  /\ axlePath[131] # states[131].rearAxlePosition
  /\ frontAxlePath[131].y =
       states[131].frontAxlePosition.y - states[131].bbPosition.y
  /\ axlePath[131].y = states[131].rearAxlePosition.y - states[131].bbPosition.y


(***************************************************************************)
(* Properties of the geometry kernel.                                      *)
(***************************************************************************)
KernelReturned(fn) == kernelCall # Null /\ kernelCall.fn = fn /\ kernelResult # Null

\* The squared distance of the two centres and the squared sum and difference
\* of the radii of the circle call, exact, in 10^-6 mm^2.
CentresSquared ==
  (kernelCall.center2.x - kernelCall.center1.x) * (kernelCall.center2.x - kernelCall.center1.x)
    + (kernelCall.center2.y - kernelCall.center1.y) * (kernelCall.center2.y - kernelCall.center1.y)
RadiiSumSquared ==
  (kernelCall.radius1 + kernelCall.radius2) * (kernelCall.radius1 + kernelCall.radius2)
RadiiDifferenceSquared ==
  (kernelCall.radius1 - kernelCall.radius2) * (kernelCall.radius1 - kernelCall.radius2)

IdenticalCentres == kernelCall.center1 = kernelCall.center2
StrictlyContained == CentresSquared < RadiiDifferenceSquared
TooFarApart == CentresSquared > RadiiSumSquared
ExternallyTangent == CentresSquared = RadiiSumSquared /\ ~IdenticalCentres

\* C16: circleCircleIntersection returns an empty result when the centres
\* are identical, when one circle strictly contains the other and when the
\* centres are farther apart than the sum of the radii; for two externally
\* tangent circles it returns two points at the same location; in every
\* other case it returns exactly two points.
C16_CircleCircleCases ==
  KernelReturned("circleCircleIntersection") =>
    IF IdenticalCentres \/ StrictlyContained \/ TooFarApart
      THEN kernelResult.value = <<>>
      ELSE /\ Len(kernelResult.value) = 2
           /\ ExternallyTangent =>
                /\ kernelResult.value[1] = kernelResult.value[2]
                /\ IsFinite(kernelResult.value[1].x)
                /\ IsFinite(kernelResult.value[1].y)

\* Circles of radius 3 and 2 mm with centres (0, 0) and (3, 4): they touch
\* from outside at (1.8, 2.4), returned twice.
C16_Witness ==
  /\ KernelReturned("circleCircleIntersection")
  /\ ExternallyTangent
  /\ kernelCall.radius1 = 3 * Mm
  /\ kernelCall.center2 = Pt(3 * Mm, 4 * Mm)
  /\ kernelResult.value = <<Pt(1800, 2400), Pt(1800, 2400)>>


\* The determinant (x1-x2)(y3-y4) - (y1-y2)(x3-x4) of the line call, exact,
\* in 10^-6 mm^2: 0.0001 is 100 of these units.
Determinant ==
  (kernelCall.line1Point1.x - kernelCall.line1Point2.x)
      * (kernelCall.line2Point1.y - kernelCall.line2Point2.y)
    - (kernelCall.line1Point1.y - kernelCall.line1Point2.y)
      * (kernelCall.line2Point1.x - kernelCall.line2Point2.x)

\* Twice the area of the triangle p, a, b, exact, in 10^-6 mm^2.
TwiceArea(p, a, b) == (p.x - a.x) * (b.y - a.y) - (p.y - a.y) * (b.x - a.x)

\* p lies within 0.01 mm of the infinite line through a and b.
OnLineThrough(p, a, b) ==
  /\ IsFinite(p.x) /\ IsFinite(p.y)
  /\ AbsInt(TwiceArea(p, a, b)) <= (Tolerance \div 10) * distance(a, b)

\* C17: lineIntersection returns no point exactly when the absolute value of
\* the determinant is below 0.0001, and otherwise returns the intersection
\* of the two infinite lines, also when it lies outside both segments.
C17_LineIntersection ==
  KernelReturned("lineIntersection") =>
    IF AbsInt(Determinant) < 100
      THEN kernelResult.value = Null
      ELSE /\ kernelResult.value # Null
           /\ OnLineThrough(kernelResult.value,
                            kernelCall.line1Point1, kernelCall.line1Point2)
           /\ OnLineThrough(kernelResult.value,
                            kernelCall.line2Point1, kernelCall.line2Point2)

\* The segments (0,0)-(1,1) and (0,4)-(1,3) do not meet; their lines meet at
\* (2, 2), beyond the end of both.
C17_Witness ==
  /\ KernelReturned("lineIntersection")
  /\ kernelCall.line1Point2 = Pt(Mm, Mm)
  /\ kernelCall.line2Point1 = Pt(0, 4 * Mm)
  /\ kernelCall.line2Point2 = Pt(Mm, 3 * Mm)
  /\ kernelResult.value = Pt(2 * Mm, 2 * Mm)


IsReal(p) == IsFinite(p.x) /\ IsFinite(p.y)

\* C18 as stated: tangentPoints never returns a NaN coordinate: for any two
\* circles, also when the radius difference exceeds the distance between
\* the centres, both returned tangent points are real numbers.
C18_AsStated ==
  KernelReturned("tangentPoints") =>
    IsReal(kernelResult.value.start) /\ IsReal(kernelResult.value.end)

\* tangentPoints returns real points unless the two circles are identical
\* (same centre, same radius), and NaN points when they are.
C18_RealUnlessIdenticalCircles ==
  KernelReturned("tangentPoints") =>
    IF IdenticalCentres /\ kernelCall.radius1 = kernelCall.radius2
      THEN /\ IsNaN(kernelResult.value.start.x) /\ IsNaN(kernelResult.value.start.y)
           /\ IsNaN(kernelResult.value.end.x) /\ IsNaN(kernelResult.value.end.y)
      ELSE IsReal(kernelResult.value.start) /\ IsReal(kernelResult.value.end)

\* The clamp at work: circles of radius 9 and 1 mm with centres 5 mm apart.
C18_ClampedCall ==
  /\ KernelReturned("tangentPoints")
  /\ kernelCall.radius1 = 9 * Mm /\ kernelCall.radius2 = Mm
  /\ kernelCall.center2 = Pt(3 * Mm, 4 * Mm)
  /\ IsReal(kernelResult.value.start) /\ IsReal(kernelResult.value.end)

\* Two circles of radius 1 mm about the origin: every coordinate is NaN.
C18_IdenticalCircles ==
  /\ KernelReturned("tangentPoints")
  /\ IdenticalCentres
  /\ kernelCall.radius1 = Mm /\ kernelCall.radius2 = Mm
  /\ IsNaN(kernelResult.value.start.x)


\* The idler at top-out and its distance to the top-out pivot, from the
\* geometry of the getIdlerPosition call.
TopOutIdler == Pt(kernelCall.geometry.idlerX,
                  kernelCall.geometry.bbHeight + kernelCall.geometry.idlerY)
TopOutIdlerToPivot == distance(TopOutIdler, topOutPivot(kernelCall.geometry))

\* The three cases of getIdlerPosition, the swingarm-mounted one by the
\* distance of the returned point to the state's pivot.
IdlerCases ==
  /\ (kernelResult.value = Null) <=> (kernelCall.geometry.idlerType = "None")
  /\ kernelCall.geometry.idlerType = "FrameMounted" =>
       /\ kernelResult.value.x =
            Minus(kernelCall.state.bbPosition.x, -kernelCall.geometry.idlerX)
       /\ kernelResult.value.y =
            Minus(kernelCall.state.bbPosition.y, -kernelCall.geometry.idlerY)
  /\ kernelCall.geometry.idlerType = "SwingarmMounted" =>
       /\ IsReal(kernelResult.value)
       /\ AbsInt(distance(kernelResult.value, kernelCall.state.pivotPosition)
                   - TopOutIdlerToPivot) <= Tolerance \div 10

\* The swingarm of the call's geometry does not reach from the top-out pivot
\* down to the height of the rear axle.
IdlerSwingarmTooShort ==
  kernelCall.geometry.swingarmLength
    < AbsInt(rearWheelRadius(kernelCall.geometry) - topOutPivot(kernelCall.geometry).y)

\* C19 as stated: getIdlerPosition returns no position exactly when
\* idlerType is None; for a frame-mounted idler it returns the state's
\* bbPosition plus (idlerX, idlerY); for a swingarm-mounted idler it returns
\* the top-out idler point carried onto the state's pivot-to-axle line, at
\* the same distance to the pivot in every state.
C19_AsStated == KernelReturned("getIdlerPosition") => IdlerCases

\* The cases of C19 hold whenever the swingarm reaches the axle height at
\* top-out.
C19_IdlerCasesWhenSwingarmReaches ==
  (KernelReturned("getIdlerPosition") /\ ~IdlerSwingarmTooShort) => IdlerCases

\* A swingarm-mounted idler on the 100 mm swingarm, 165 mm above the axle
\* height: the returned position is (NaN, NaN).
C19_IdlerOnShortSwingarm ==
  /\ KernelReturned("getIdlerPosition")
  /\ kernelCall.geometry.idlerType = "SwingarmMounted"
  /\ IdlerSwingarmTooShort
  /\ IsNaN(kernelResult.value.x) /\ IsNaN(kernelResult.value.y)

\* A swingarm-mounted idler of the default geometry 30 mm into the stroke:
\* moved from its top-out place, still 53.852 mm from the pivot.
C19_IdlerCarried ==
  /\ KernelReturned("getIdlerPosition")
  /\ kernelCall.geometry.idlerType = "SwingarmMounted"
  /\ ~IdlerSwingarmTooShort
  /\ kernelCall.state.travelMM > 50 * Mm
  /\ kernelResult.value # TopOutIdler
  /\ distance(kernelResult.value, kernelCall.state.pivotPosition) = TopOutIdlerToPivot

(***************************************************************************)
(* Properties of useBikeViewModel's debounced analysis                     *)
(***************************************************************************)
\* The analysis analysed[k] ran from the timeout of the geometry that was
\* the latest one set, holds that geometry, and ran at least TimerDelay
\* after it was set.
AnalysedLatest(k) ==
  /\ analysed[k].timer \in 1..Len(changed)
  /\ analysed[k].timer = analysed[k].latest
  /\ analysed[k].geometry = changed[analysed[k].timer].geometry
  /\ analysed[k].at >= changed[analysed[k].timer].at + TimerDelay

\* No other analysis ran from the timeout of analysed[k].
AnalysedOnce(k) ==
  \A j \in 1..Len(analysed) : analysed[j].timer = analysed[k].timer => j = k

\* The geometry changed[k] was replaced less than TimerDelay after it was set.
SupersededWhilePending(k) ==
  /\ k < Len(changed)
  /\ changed[k + 1].at - changed[k].at < TimerDelay

\* What analysisResults holds: nothing before the first analysis, then one
\* sample per stroke step of the geometry of the analysis that ran last.
ResultsOfLastAnalysis ==
  Len(analysisResults.states) =
    IF analysed = <<>> THEN 0 ELSE samplesFor(asRead(analysed[Len(analysed)].geometry))

\* C20: in the view model runKinematicAnalysis runs only from a timeout, at
\* least 100 ms after the geometry it analyses was set; setting a geometry
\* clears the timeout of the one before, so only the timeout of the latest
\* geometry is ever pending, no analysis runs on a geometry that was replaced
\* while its timeout was pending, and a burst of geometries set less than
\* 100 ms apart is analysed at most once, on the last geometry of the burst.
C20_DebouncedAnalysis ==
  /\ pending \subseteq {timer}
  /\ ResultsOfLastAnalysis
  /\ \A k \in 1..Len(analysed) : AnalysedLatest(k) /\ AnalysedOnce(k)
  /\ \A k \in 1..Len(changed) :
       SupersededWhilePending(k) => \A j \in 1..Len(analysed) : analysed[j].timer # k

\* Two edits 50 ms apart after the mount, then a single analysis: of the
\* second edit's geometry, with no timeout left pending.
C20_BurstAnalysedOnce ==
  /\ Len(changed) = 3
  /\ changed[3].at > changed[2].at
  /\ SupersededWhilePending(1) /\ SupersededWhilePending(2)
  /\ changed[3].geometry # changed[2].geometry
  /\ Len(analysed) = 1
  /\ analysed[1].timer = 3
  /\ analysed[1].geometry = viewGeometry
  /\ Len(analysisResults.states) > 0
  /\ pending = {}

\* The shock eye has no pair of candidates at top-out: line 200.
NoEyeAtTopOut ==
  Len(circleCircleIntersection(topOutPivot(geometry),
                               geometry.shockSwingarmMountDistance,
                               topOutFrameMount(geometry),
                               geometry.shockETE)) # 2

\* establishRigidTriangle took one of its two early returns.
FallbackCase == pc # "start" /\ (NoEyeAtTopOut \/ SwingarmTooShort)

\* C23 as stated: the fallback triangle has shockSwingarmMountDistance as
\* both its pivot-to-eye and its pivot-to-axle length, correctEyeIndex 0 and
\* axleAngleIsPositive true.
C23_AsStated ==
  FallbackCase =>
    /\ rigidTriangle.pivotToEye = geometry.shockSwingarmMountDistance
    /\ rigidTriangle.pivotToAxle = geometry.shockSwingarmMountDistance
    /\ rigidTriangle.correctEyeIndex = 0
    /\ rigidTriangle.axleAngleIsPositive = TRUE

\* C23: the fallback triangle (no eye intersection at top-out, or negative
\* Pythagorean term) has shockSwingarmMountDistance as its pivot-to-eye
\* length and swingarmLength as both its pivot-to-axle and its eye-to-axle
\* length, with correctEyeIndex 0 and axleAngleIsPositive true.
C23_FallbackSides ==
  FallbackCase =>
    /\ rigidTriangle.pivotToEye = geometry.shockSwingarmMountDistance
    /\ rigidTriangle.pivotToAxle = geometry.swingarmLength
    /\ rigidTriangle.eyeToAxle = geometry.swingarmLength
    /\ rigidTriangle.correctEyeIndex = 0
    /\ rigidTriangle.axleAngleIsPositive = TRUE

\* A run whose shock never reaches at top-out: the fallback's pivot-to-axle
\* side is the 440 mm swingarm, not the 190 mm mount distance.
C23_Witness ==
  /\ Returned
  /\ NoEyeAtTopOut
  /\ ~SwingarmTooShort
  /\ rigidTriangle.pivotToEye = 190 * Mm
  /\ rigidTriangle.pivotToAxle = 440 * Mm

(***************************************************************************)
(* Properties of calculateStateAtShockStroke called on its own             *)
(***************************************************************************)
\* The shock-eye candidates of the call: lines 296-301.
StateCallEyes ==
  circleCircleIntersection(topOutPivot(kernelCall.geometry),
                           kernelCall.geometry.shockSwingarmMountDistance,
                           topOutFrameMount(kernelCall.geometry),
                           Sub(kernelCall.geometry.shockETE, kernelCall.shockStroke))

\* const cosAngle of lines 324-328, for the eye the triangle names.
StateCallCosAngle ==
  cosAngleOf(distance(topOutPivot(kernelCall.geometry),
                      StateCallEyes[kernelCall.rigidTriangle.correctEyeIndex + 1]),
             kernelCall.rigidTriangle.pivotToAxle,
             kernelCall.rigidTriangle.eyeToAxle)

\* The call found an eye, and the law-of-cosines term is outside [-1, 1].
AxleSolveFails ==
  /\ KernelReturned("calculateStateAtShockStroke")
  /\ StateCallEyes # <<>>
  /\ ~(IsFinite(StateCallCosAngle) /\ StateCallCosAngle >= -One /\ StateCallCosAngle <= One)

\* No coordinate of the five positions of a first-pass state is NaN.
PositionsDefined(state) ==
  \A p \in {state.rearAxlePosition, state.bbPosition, state.pivotPosition,
            state.swingarmEyePosition} : ~IsNaN(p.x) /\ ~IsNaN(p.y)

\* C24 as stated: when the law-of-cosines term at the pivot is outside its
\* valid range, calculateStateAtShockStroke returns the degenerate state of a
\* missing eye intersection, so no returned state has a NaN position.
C24_AsStated ==
  KernelReturned("calculateStateAtShockStroke") =>
    /\ AxleSolveFails =>
         kernelResult.value = degenerateState(kernelCall.shockStroke, kernelCall.geometry)
    /\ PositionsDefined(kernelResult.value)

\* While the law-of-cosines term is within [-1, 1], or no eye is found, the
\* positions of the returned state are numbers.
C24_DefinedWithinDomain ==
  (KernelReturned("calculateStateAtShockStroke") /\ ~AxleSolveFails) =>
    PositionsDefined(kernelResult.value)

\* The 90 mm swingarm 30 mm into the stroke: the term is 190 / 180, and the
\* returned rear axle, bottom bracket, pivot and eye are NaN.
C24_AxleSolveNaN ==
  /\ AxleSolveFails
  /\ kernelCall.geometry = TinySwingarmGeometry
  /\ kernelCall.shockStroke = 30 * Mm
  /\ kernelCall.rigidTriangle = fallbackTriangle(TinySwingarmGeometry)
  /\ StateCallCosAngle > One
  /\ IsNaN(kernelResult.value.rearAxlePosition.x)
  /\ IsNaN(kernelResult.value.bbPosition.y)
  /\ IsNaN(kernelResult.value.pivotPosition.y)
  /\ IsNaN(kernelResult.value.swingarmEyePosition.y)
  /\ IsNaN(kernelResult.value.travelMM)

(***************************************************************************)
(* Properties of the chain line of calculateVisualAntiSquat                *)
(***************************************************************************)
\* The anti-squat of a state along a given chain line: lines 533-576.
AntiSquatAlongChain(state, g, applyPitchRotation, chainline) ==
  antiSquatThrough(state, g, applyPitchRotation,
                   lineIntersection(chainline.start, chainline.end,
                                    Rotated(applyPitchRotation, state.pivotPosition),
                                    Rotated(applyPitchRotation, state.rearAxlePosition)))

\* The chain line as the tangent from the front circle to a circle of radius
\* rearRadius about the rear axle, both in the pitch-corrected frame.
AntiSquatBetween(state, g, applyPitchRotation, frontSprocket, rearRadius) ==
  AntiSquatAlongChain(state, g, applyPitchRotation,
                      tangentPoints(Rotated(applyPitchRotation, frontSprocket.center),
                                    frontSprocket.radius,
                                    Rotated(applyPitchRotation, state.rearAxlePosition),
                                    rearRadius))

\* The front circle: the chainring without an idler, the idler with one.
FrontCircleOf(state, g) ==
  IF g.idlerType = "None"
    THEN [center |-> Pt(Add(state.bbPosition.x, g.chainringOffsetX),
                        Add(state.bbPosition.y, g.chainringOffsetY)),
          radius |-> sprocketRadius(g.chainringTeeth)]
    ELSE [center |-> getIdlerPosition(state, g),
          radius |-> sprocketRadius(g.idlerTeeth)]

AntiSquatToRearCircle(state, g, rearRadius) ==
  AntiSquatBetween(state, g,
                   getApplyPitchRotation(state.rearAxlePosition, state.pitchAngleDegrees),
                   FrontCircleOf(state, g), rearRadius)

\* C25 as stated: the anti-squat of every returned state is taken along the
\* tangent between the front circle (chainring, or idler when there is one)
\* and the cog circle, centred on the rear axle with radius
\* sprocketRadius(cogTeeth).
C25_AsStated ==
  Returned =>
    \A k \in 1..Len(states) :
      states[k].antiSquat =
        AntiSquatToRearCircle(states[k], geometry, sprocketRadius(geometry.cogTeeth))

\* The anti-squat of every returned state is taken along the tangent between
\* the front circle and a circle of the rear wheel's radius about the rear
\* axle.
C25_ChainLineToRearWheel ==
  Returned =>
    \A k \in 1..Len(states) :
      states[k].antiSquat =
        AntiSquatToRearCircle(states[k], geometry, rearWheelRadius(geometry))

\* A run of the default geometry, 28-tooth cog (56.6 mm) in a 375 mm wheel:
\* the anti-squat of the third sample is the one along the tangent to the
\* wheel circle and differs from the one along the tangent to the cog circle.
C25_TangentToWheelCircle ==
  /\ Returned
  /\ geometry.idlerType = "None"
  /\ geometry.rearWheelDiameter = 750 * Mm
  /\ geometry.swingarmLength = 440 * Mm
  /\ Len(states) >= 3
  /\ IsFinite(states[3].antiSquat)
  /\ states[3].antiSquat # 0
  /\ states[3].antiSquat =
       AntiSquatToRearCircle(states[3], geometry, rearWheelRadius(geometry))
  /\ states[3].antiSquat #
       AntiSquatToRearCircle(states[3], geometry, sprocketRadius(geometry.cogTeeth))

\* The same with the idler on the frame: the front circle is the idler.
C25_IdlerToWheelCircle ==
  /\ Returned
  /\ geometry.idlerType = "FrameMounted"
  /\ Len(states) >= 3
  /\ IsFinite(states[3].antiSquat)
  /\ states[3].antiSquat =
       AntiSquatToRearCircle(states[3], geometry, rearWheelRadius(geometry))
  /\ states[3].antiSquat #
       AntiSquatToRearCircle(states[3], geometry, sprocketRadius(geometry.cogTeeth))

(***************************************************************************)
(* Properties of the proportional fork compression                         *)
(***************************************************************************)
\* (i * 0.5 / shockStroke) * forkTravel for the sample at 1-based index k.
ProportionalForkStrokeAt(k) ==
  MulLR(geometry.forkTravel, DivLL(strokeAtStep(k - 1), geometry.shockStroke))

\* Front axle and pitch of a state for a fork of length forkLen.
FrontAxleWithFork(state, forkLen) ==
  frontAxleOf(state.bbPosition, geometry, headTubeAngleRadians(geometry), forkLen)

PitchWithFork(state, forkLen) ==
  pitchOf(FrontAxleWithFork(state, forkLen), state.rearAxlePosition, geometry)

UsesCompressedFork(state) ==
  /\ state.frontAxlePosition =
       FrontAxleWithFork(state, Sub(geometry.forkLength, state.forkCompression))
  /\ state.pitchAngleDegrees =
       PitchWithFork(state, Sub(geometry.forkLength, state.forkCompression))

ForkCompressionInRange(k) ==
  /\ k = 1 => states[k].forkCompression = 0
  /\ k > 1 => Ge(states[k].forkCompression, states[k - 1].forkCompression)
  /\ Ge(geometry.forkTravel, states[k].forkCompression)

C26_ZeroStroke ==
  /\ Returned
  /\ geometry.shockStroke = 0
  /\ Len(states) = 1
  /\ IsNaN(states[1].forkCompression)

(***************************************************************************)
(* Properties of travelMM and of the ground lock                           *)
(***************************************************************************)
\* C27: travelMM of every returned state is the absolute difference between
\* geometry.bbHeight and the state's bbPosition.y, hence never negative, and
\* it is 0 within rounding for states[0] of a feasible geometry.
C27_TravelIsBBDrop ==
  Returned =>
    /\ \A k \in 1..Len(states) :
         /\ states[k].travelMM = Abs(Sub(geometry.bbHeight, states[k].bbPosition.y))
         /\ ~Lt(states[k].travelMM, 0)
    /\ FeasibleRun => Within(states[1].travelMM, 0)

\* A run with a sample whose bottom bracket is above bbHeight (the axle of
\* the fallback triangle lies below the wheel radius): travelMM is the positive height
\* difference, not the negative drop.
C27_Witness ==
  /\ Returned
  /\ \E k \in 1..Len(states) :
       /\ Gt(states[k].bbPosition.y, Add(geometry.bbHeight, Tolerance))
       /\ states[k].travelMM = Sub(states[k].bbPosition.y, geometry.bbHeight)
       /\ Gt(states[k].travelMM, Tolerance)

\* The default geometry's run: no travel at top-out, and the bottom bracket
\* more than 100 mm below bbHeight at the last sample.
C27_FeasibleTravel ==
  /\ Returned
  /\ FeasibleRun
  /\ Len(states) = 131
  /\ Within(states[1].travelMM, 0)
  /\ states[131].travelMM = Sub(geometry.bbHeight, states[131].bbPosition.y)
  /\ Gt(states[131].travelMM, 100 * Mm)

\* The frame as the state has it: the bottom bracket on x = 0 and the pivot
\* (bbToPivotX, bbToPivotY) from it.
FrameKept(state) ==
  /\ state.bbPosition.x = 0
  /\ Sub(state.pivotPosition.x, state.bbPosition.x) = geometry.bbToPivotX
  /\ Sub(state.pivotPosition.y, state.bbPosition.y) = geometry.bbToPivotY

\* The law-of-cosines term of sample k, for the eye the triangle selects.
CosAngleAt(k) ==
  cosAngleOf(distance(topOutPivot(geometry),
                      EyeCandidatesAt(k)[rigidTriangle.correctEyeIndex + 1]),
             rigidTriangle.pivotToAxle, rigidTriangle.eyeToAxle)

AxleSolveFailsAt(k) ==
  /\ EyeCandidatesAt(k) # <<>>
  /\ IsNaN(Acos(CosAngleAt(k)))

\* C28 as stated: in every returned state, degenerate states included,
\* bbPosition.x is 0 and pivotPosition minus bbPosition equals
\* (bbToPivotX, bbToPivotY).
C28_AsStated ==
  Returned => \A k \in 1..Len(states) : FrameKept(states[k])

\* The frame is kept by every returned state, degenerate ones included, whose
\* axle solve is within its domain; where it is not, the state's bottom
\* bracket and pivot heights are NaN.
C28_FrameKeptWhenAxleSolved ==
  Returned =>
    \A k \in 1..Len(states) :
      IF AxleSolveFailsAt(k)
        THEN /\ IsNaN(states[k].bbPosition.y)
             /\ IsNaN(states[k].pivotPosition.y)
        ELSE FrameKept(states[k])

\* The run of the 90 mm swingarm: its samples have a shock eye but no axle,
\* and pivotPosition.y - bbPosition.y is NaN instead of bbToPivotY.
C28_FrameLost ==
  /\ Returned
  /\ geometry.swingarmLength = TinySwingarmGeometry.swingarmLength
  /\ Len(states) >= 2
  /\ AxleSolveFailsAt(2)
  /\ states[2].bbPosition.x = 0
  /\ IsNaN(Sub(states[2].pivotPosition.y, states[2].bbPosition.y))

\* A run with degenerate samples followed by solved ones, the frame lowered
\* in the solved ones: both kinds keep the frame.
C28_FrameKeptDegenerateAndSolved ==
  /\ Returned
  /\ \E j, k \in 1..Len(states) :
       /\ EyeCandidatesAt(j) = <<>>
       /\ states[j].bbPosition = Pt(0, geometry.bbHeight)
       /\ FrameKept(states[j])
       /\ EyeCandidatesAt(k) # <<>>
       /\ FrameKept(states[k])
       /\ states[k].bbPosition.y # geometry.bbHeight

(***************************************************************************)
(* Properties of the drivetrain fields the second pass leaves alone        *)
(***************************************************************************)
DrivetrainFieldsZero(state) ==
  /\ state.pedalKickback = 0
  /\ state.chainGrowth = 0
  /\ state.totalChainGrowth = 0
  /\ state.crankAngle = 0

C29_WitnessNoIdler ==
  /\ Returned
  /\ geometry.idlerType = "None"
  /\ Len(states) = 131
  /\ states[131].antiSquat # 0
  /\ states[131].antiRise # 0
  /\ DrivetrainFieldsZero(states[131])

(***************************************************************************)
(* Properties of saveToFile and loadFromFile                               *)
(***************************************************************************)
\* The geometry set last came from the file of the given content.
LoadedLast(content) ==
  /\ changed # <<>>
  /\ changed[Len(changed)].file = content
  /\ changed[Len(changed)].geometry = viewGeometry

FailsToParse(content) == "syntaxError" \in DOMAIN content

\* The content parses but holds no geometry object: the text null, a design
\* without a geometry member, or one whose geometry is not an object.
NoGeometryObject(content) ==
  /\ ~FailsToParse(content)
  /\ \/ "null" \in DOMAIN content
     \/ "geometry" \notin DOMAIN content.object
     \/ ~IsObject(content.object.geometry)

\* C21 as stated: loading a file that parses but has no geometry object sets
\* the geometry to the default geometry, and loading a file whose content
\* fails to parse leaves bikeName and geometry unchanged.
C21_AsStated ==
  [][\A content \in FilesToLoad :
       LoadFile(content) =>
         /\ NoGeometryObject(content) => viewGeometry' = DefaultGeometry
         /\ FailsToParse(content) => UNCHANGED <<bikeName, viewGeometry>>]_viewVars

\* What loadFromFile does: content that fails to parse, and the text null,
\* leave bikeName and geometry unchanged and log an error; a design without
\* geometry member sets the default geometry; any other design sets the
\* value of its geometry member, object or not.
C21_LoadSetsAnyGeometryValue ==
  [][\A content \in FilesToLoad :
       LoadFile(content) =>
         IF FailsToParse(content) \/ "null" \in DOMAIN content
           THEN /\ UNCHANGED <<bikeName, viewGeometry, changed, pending>>
                /\ consoleError' \in {SyntaxError, TypeError}
         ELSE IF "geometry" \notin DOMAIN content.object
           THEN viewGeometry' = DefaultGeometry
         ELSE viewGeometry' = content.object.geometry]_viewVars

\* The file {"name": "Seven", "geometry": 7} has been loaded: the geometry
\* of the view model is the number 7, whose every field reads as undefined.
C21_NumberAsGeometry ==
  /\ LoadedLast(NumberDesign)
  /\ bikeName = "Seven"
  /\ viewGeometry = [number |-> 7]
  /\ viewGeometry # DefaultGeometry
  /\ IsNaN(asRead(viewGeometry).shockStroke)
  /\ IsNaN(asRead(viewGeometry).swingarmLength)

\* A file without geometry member has been loaded: the default geometry.
C21_DefaultForMissingGeometry ==
  /\ LoadedLast(EmptyDesign)
  /\ bikeName = "Empty"
  /\ viewGeometry = DefaultGeometry
  /\ Len(changed) = 3
  /\ changed[2].geometry # DefaultGeometry

\* The text null was loaded after an edit: a TypeError is logged and the
\* edited geometry stays, not the default one.
C21_NullDocumentKeepsGeometry ==
  /\ consoleError = TypeError
  /\ Len(changed) = 2
  /\ changed[2].file = Null
  /\ viewGeometry = changed[2].geometry
  /\ viewGeometry # DefaultGeometry
  /\ bikeName = "Custom Build"

\* A text that is not JSON was loaded after an edit: nothing but the log.
C21_SyntaxErrorKeepsDesign ==
  /\ consoleError = SyntaxError
  /\ Len(changed) = 2
  /\ changed[2].file = Null
  /\ viewGeometry = changed[2].geometry
  /\ viewGeometry # DefaultGeometry
  /\ bikeName = "Custom Build"

\* The numbers of a geometry all have a JSON text.
NumbersHaveText(v) ==
  IsObject(v) => \A f \in DOMAIN v \ {"idlerType"} : v[f] \notin {NaN, PosInf, NegInf}

\* The design the downloaded file was written from is the one set now.
Restored ==
  /\ viewGeometry' = download.design.geometry
  /\ bikeName' = download.design.name
  /\ resultsFor(asRead(viewGeometry')) = resultsFor(asRead(download.design.geometry))

\* C22 as stated: loading the file that saveToFile wrote restores a geometry
\* equal field for field to the saved one, and the saved name, so the
\* analysis of the loaded geometry is that of the saved one.
C22_AsStated ==
  [][(download # Null /\ LoadFile(download.content)) => Restored]_viewVars

\* The round trip restores the design when every number of the saved
\* geometry is finite and the saved name is not empty.
C22_RestoresFiniteNamedDesigns ==
  [][(/\ download # Null
      /\ LoadFile(download.content)
      /\ NumbersHaveText(download.design.geometry)
      /\ download.design.name # "") => Restored]_viewVars

\* The shock stroke field was cleared (NaN), the design saved and the file
\* loaded: the loaded shock stroke is null, and its analysis has one sample
\* where the analysis of the saved geometry has none.
C22_ClearedFieldNotRestored ==
  /\ download # Null
  /\ LoadedLast(download.content)
  /\ IsObject(download.design.geometry)
  /\ IsNaN(download.design.geometry.shockStroke)
  /\ viewGeometry.shockStroke = JsonNull
  /\ viewGeometry # download.design.geometry
  /\ bikeName = download.design.name
  /\ resultsFor(asRead(download.design.geometry)) = EmptyResults
  /\ Len(resultsFor(asRead(viewGeometry)).states) = 1

\* The name field was cleared, the design saved and the file loaded: the
\* name is "Loaded Design".
C22_EmptyNameNotRestored ==
  /\ download # Null
  /\ LoadedLast(download.content)
  /\ download.design.name = ""
  /\ viewGeometry = download.design.geometry
  /\ bikeName = "Loaded Design"

\* The default design saved and loaded after a reset of an edit: restored.
C22_FiniteDesignRestored ==
  /\ download # Null
  /\ LoadedLast(download.content)
  /\ NumbersHaveText(download.design.geometry)
  /\ viewGeometry = download.design.geometry
  /\ bikeName = download.design.name
  /\ Len(changed) = 3
  /\ changed[2].geometry # viewGeometry

(***************************************************************************)
(* Properties of the debounced analysis once the edits have stopped        *)
(***************************************************************************)
\* The n-th geometry set is still the current one, its timeout has fired and
\* the view model holds its analysis, with both sliders back at 0.
SettledOn(n) ==
  /\ Len(changed) = n
  /\ changed[n].geometry = viewGeometry
  /\ pending = {}
  /\ analysed # <<>>
  /\ analysed[Len(analysed)].timer = n
  /\ analysed[Len(analysed)].geometry = viewGeometry
  /\ Len(analysisResults.states) = samplesFor(asRead(viewGeometry))
  /\ currentTravelMM = 0
  /\ currentForkStroke = 0
  /\ isCalculating = FALSE

C30_SlidersMoved ==
  /\ mounted
  /\ pending = {}
  /\ Len(analysed) = 1
  /\ currentTravelMM = 25 * Mm
  /\ currentForkStroke = 25 * Mm

=============================================================================
